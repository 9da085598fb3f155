----------------------------- MODULE LazyProofs -----------------------------
(***************************************************************************)
(* Reading a vector in pieces, for every vector, every way to read it and   *)
(* every limit: the caller gets the elements of the range in order, each    *)
(* once, and a chunk keeps to its limits.                                   *)
(***************************************************************************)
EXTENDS LazyVectors, SequenceTheorems, FiniteSetTheorems, TLAPS

(* n elements of the vector, those that follow the first a.                 *)
From(a, n) == [k \in 1..n |-> Element(a + k)]

Ranged  == job.user = "range"
Reading == pc \in {"ready", "taking", "record", "called"}

(* How many elements have left the reader; of a range of strings, how many  *)
(* of these were asked for.                                                 *)
Passed  == taken - Len(out)
Used(y) == IF y <= job.start THEN 0 ELSE y - job.start
Useds   == Used(Passed)

Types ==
  /\ TypeOK
  /\ pc \in {"taking", "record"} => IsText
  /\ pc = "record" => job.lazy /\ taken < N
  /\ pc = "called" => job.user \in {"callback", "file"}
  /\ Ranged /\ Reading => job.start + job.count <= N /\ job.count > 0
  /\ pc = "open" => taken = 0 /\ pos = 0 /\ out = <<>> /\ carry = <<>> /\ chunks = <<>>

(* What is not read as a stream of bytes: the chunk in the making follows   *)
(* what has been handed over.                                               *)
PiecesInv ==
  ~Streamed =>
    /\ Len(out) <= taken /\ out = From(Passed, Len(out))
    /\ pc \notin {"taking", "record"} /\ (Reading \/ ~IsText) => out = <<>>
    /\ ~Ranged => FlattenSeq(chunks) = From(0, Passed)
    /\ Ranged /\ (Reading \/ pc = "open") =>
         /\ chunks = <<>> /\ skipped = Least(job.start, Passed)
         /\ result = From(job.start, Useds) /\ (Reading => Useds < job.count)

(* A stream of bytes: what is carried over begins where the last element    *)
(* that was handed over ends, and is less than an element.                  *)
StreamInv ==
  Streamed /\ Reading =>
    IF Ranged
    THEN /\ chunks = <<>> /\ pos \in job.start * Width .. Stop - 1
         /\ carry = ReadAt(job.start * Width, pos - job.start * Width)
    ELSE \E d \in 0..N :
         /\ FlattenSeq(chunks) = From(0, d)
         /\ Len(carry) < Width /\ pos = d * Width + Len(carry) /\ pos <= SpanLen
         /\ carry = ReadAt(d * Width, Len(carry))

(* Strings of a span: the buffer holds the bytes that were read last, what  *)
(* is next in it is the record being read, and the cache has the strings    *)
(* that were spelled so far.                                                *)
Unread == pos - Len(buf) + bufPos
SpelledTo(k) == {j \in Spelled : j <= k}

ReaderInv ==
  job.lazy /\ IsText =>
    /\ Len(buf) <= pos /\ pos <= SpanLen /\ buf = ReadAt(pos - Len(buf), Len(buf))
    /\ pc # "record" /\ pc # "failed" => Unread = Place(taken + 1)
    /\ pc = "record" =>
         /\ Unread = Place(taken + 1) + Len(got)
         /\ got = ReadAt(Place(taken + 1), Len(got))
         /\ Len(got) <= WireLen(Items[taken + 1])
    /\ Len(cache) = Cardinality(SpelledTo(taken))
    /\ \A i \in 1..Len(cache) : cache[i] = Plain(Nth(i))

(* The chunk of strings in the making keeps to its limits, with room for    *)
(* what may come on top.                                                    *)
OutInv ==
  IsText =>
    /\ pc \in {"open", "ready", "called"} => bytes = 0 /\ out = <<>>
    /\ pc \in {"taking", "record"} =>
         /\ bytes = Size(out) /\ Len(out) <= MaxElements
         /\ pc = "record" => Len(out) < MaxElements
         /\ out # <<>> => Size(out) <= ByteLimit \/ (~job.lazy /\ Len(out) = 1)

LazyInv == Types /\ PiecesInv /\ StreamInv /\ ReaderInv /\ OutInv /\ ChunksBounded
-----------------------------------------------------------------------------
(* Of the natural numbers there are in a set, one is the least.             *)
LEMMA LeastOf ==
  ASSUME NEW T \in SUBSET Nat, T # {}
  PROVE \E x \in T : \A y \in T : x <= y
<1> DEFINE U == {1..n : n \in T}
<1>1. IsWellFoundedOn(StrictSubsetOrdering(Nat), FiniteSubsetsOf(Nat))
  BY FS_StrictSubsetOrderingWellFounded
<1>2. U \subseteq FiniteSubsetsOf(Nat) /\ U # {}
  <2>1. ASSUME NEW n \in T PROVE IsFiniteSet(1..n) /\ 1..n \in SUBSET Nat
    BY FS_Interval
  <2> QED BY <2>1 DEF FiniteSubsetsOf
<1>3. PICK m \in U : \A u \in U : <<u, m>> \notin StrictSubsetOrdering(Nat)
  <2> HIDE DEF U
  <2> QED BY <1>1, <1>2, WFMin
<1>4. PICK x \in T : m = 1..x
  OBVIOUS
<1>5. ASSUME NEW y \in T PROVE x <= y
  <2>1. 1..y \in SUBSET Nat /\ 1..x \in SUBSET Nat
    OBVIOUS
  <2>2. ~(1..y \subseteq 1..x /\ 1..y # 1..x)
    BY <1>3, <1>4, <2>1 DEF StrictSubsetOrdering
  <2>3. SUFFICES ASSUME y < x PROVE FALSE
    OBVIOUS
  <2>4. x \in 1..x /\ x \notin 1..y
    BY <2>3
  <2> QED BY <2>2, <2>3, <2>4
<1> QED BY <1>5

LEMMA Induct ==
  ASSUME NEW T, 0 \in T, \A n \in Nat : n \in T => n + 1 \in T
  PROVE  \A n \in Nat : n \in T
<1> SUFFICES ASSUME \E n \in Nat : n \notin T PROVE FALSE
  OBVIOUS
<1> DEFINE U == {n \in Nat : n \notin T}
<1>1. PICK x \in U : \A y \in U : x <= y
  <2>1. U \in SUBSET Nat /\ U # {}
    OBVIOUS
  <2> HIDE DEF U
  <2> QED BY <2>1, LeastOf
<1>2. x \in Nat /\ x # 0
  OBVIOUS
<1>3. x - 1 \in Nat /\ ~(x <= x - 1) /\ (x - 1) + 1 = x
  BY <1>2
<1>4. x - 1 \in T
  BY <1>1, <1>3
<1> QED BY <1>3, <1>4
-----------------------------------------------------------------------------
(* Total is the recursive sum it is written as.                             *)
Sums(g, s, n) == g = [k \in 0..n |-> IF k = 0 THEN 0 ELSE g[k - 1] + s[k]]

LEMMA SumsExist ==
  ASSUME NEW s, NEW m \in Nat
  PROVE  \E g : Sums(g, s, m)
<1> DEFINE T == {n \in Nat : \E g : Sums(g, s, n)}
<1>1. 0 \in T
  <2> DEFINE g == [k \in 0..0 |-> 0]
  <2>1. g = [k \in 0..0 |-> IF k = 0 THEN 0 ELSE g[k - 1] + s[k]]
    OBVIOUS
  <2>2. Sums(g, s, 0)
    BY <2>1 DEF Sums
  <2> QED BY <2>2
<1>2. ASSUME NEW n \in Nat, n \in T PROVE n + 1 \in T
  <2>1. PICK g : Sums(g, s, n)
    BY <1>2
  <2> DEFINE h == [k \in 0..(n + 1) |-> IF k <= n THEN g[k] ELSE g[n] + s[n + 1]]
  <2>2. ASSUME NEW k \in 0..(n + 1) PROVE h[k] = IF k = 0 THEN 0 ELSE h[k - 1] + s[k]
    <3>1. CASE k = 0
      <4>1. g[0] = 0
        BY <2>1 DEF Sums
      <4> QED BY <3>1, <4>1
    <3>2. CASE k # 0 /\ k <= n
      <4>1. k \in 0..n /\ k - 1 \in 0..n /\ k - 1 \in 0..(n + 1) /\ k - 1 <= n
        BY <3>2
      <4>2. g[k] = g[k - 1] + s[k]
        BY <2>1, <3>2, <4>1 DEF Sums
      <4>3. h[k] = g[k] /\ h[k - 1] = g[k - 1]
        BY <3>2, <4>1
      <4> QED BY <3>2, <4>2, <4>3
    <3>3. CASE k = n + 1
      <4>1. k # 0 /\ k - 1 = n /\ ~(k <= n) /\ n \in 0..(n + 1) /\ n <= n
        BY <3>3
      <4>2. h[k] = g[n] + s[k] /\ h[n] = g[n]
        BY <3>3, <4>1
      <4> QED BY <4>1, <4>2
    <3> QED BY <3>1, <3>2, <3>3
  <2>3. h = [k \in 0..(n + 1) |-> h[k]]
    OBVIOUS
  <2> HIDE DEF h
  <2>4. h = [k \in 0..(n + 1) |-> IF k = 0 THEN 0 ELSE h[k - 1] + s[k]]
    BY <2>2, <2>3
  <2>5. Sums(h, s, n + 1)
    BY <2>4 DEF Sums
  <2> QED BY <2>5
<1> HIDE DEF T
<1>3. m \in T
  BY <1>1, <1>2, Induct
<1> QED BY <1>3 DEF T

LEMMA SumsUnique ==
  ASSUME NEW s, NEW t, NEW g, NEW h, NEW i \in Nat, NEW j \in Nat, NEW n \in Nat,
         Sums(g, s, i), Sums(h, t, j), n <= i, n <= j, \A k \in 1..n : s[k] = t[k]
  PROVE  g[n] = h[n]
<1> DEFINE T == {m \in Nat : m <= n => g[m] = h[m]}
<1>1. 0 \in T
  <2>1. 0 \in 0..i /\ 0 \in 0..j
    OBVIOUS
  <2> QED BY <2>1 DEF Sums
<1>2. ASSUME NEW m \in Nat, m \in T PROVE m + 1 \in T
  <2> SUFFICES ASSUME m + 1 <= n PROVE g[m + 1] = h[m + 1]
    OBVIOUS
  <2>1. m + 1 \in 0..i /\ m + 1 \in 0..j /\ m + 1 # 0 /\ (m + 1) - 1 = m /\ m <= n /\ m + 1 \in 1..n
    OBVIOUS
  <2>2. g[m + 1] = g[m] + s[m + 1] /\ h[m + 1] = h[m] + t[m + 1]
    BY <2>1 DEF Sums
  <2>3. g[m] = h[m] /\ s[m + 1] = t[m + 1]
    BY <1>2, <2>1
  <2> QED BY <2>2, <2>3
<1> HIDE DEF T
<1>3. n \in T
  BY <1>1, <1>2, Induct
<1> QED BY <1>3 DEF T

LEMMA TotalSums ==
  ASSUME NEW s, Len(s) \in Nat
  PROVE  \E g : Sums(g, s, Len(s)) /\ Total(s) = g[Len(s)]
<1> DEFINE n == Len(s)
           g == CHOOSE f : f = [k \in 0..n |-> IF k = 0 THEN 0 ELSE f[k - 1] + s[k]]
<1>1. \E f : Sums(f, s, n)
  BY SumsExist
<1>2. g = [k \in 0..n |-> IF k = 0 THEN 0 ELSE g[k - 1] + s[k]]
  BY <1>1 DEF Sums
<1>3. Total(s) = g[n]
  BY DEF Total
<1> HIDE DEF g
<1>4. Sums(g, s, n)
  BY <1>2 DEF Sums
<1> QED BY <1>3, <1>4

LEMMA TotalNone ==
  ASSUME NEW s, Len(s) = 0
  PROVE  Total(s) = 0
<1>1. PICK g : Sums(g, s, 0) /\ Total(s) = g[0]
  BY TotalSums
<1>2. g[0] = 0
  BY <1>1 DEF Sums
<1> QED BY <1>1, <1>2

LEMMA TotalMore ==
  ASSUME NEW n \in Nat, NEW s, NEW t, Len(s) = n, Len(t) = n + 1, \A j \in 1..n : t[j] = s[j]
  PROVE  Total(t) = Total(s) + t[n + 1]
<1>1. PICK g : Sums(g, s, n) /\ Total(s) = g[n]
  BY TotalSums
<1>2. PICK h : Sums(h, t, n + 1) /\ Total(t) = h[n + 1]
  <2>1. n + 1 \in Nat
    OBVIOUS
  <2> QED BY <2>1, TotalSums
<1>3. n + 1 \in 0..(n + 1) /\ n + 1 # 0 /\ (n + 1) - 1 = n
  OBVIOUS
<1>4. h[n + 1] = h[n] + t[n + 1]
  BY <1>2, <1>3 DEF Sums
<1>5. h[n] = g[n]
  <2>1. n + 1 \in Nat /\ n <= n /\ n <= n + 1
    OBVIOUS
  <2> QED BY <1>1, <1>2, <2>1, SumsUnique
<1> QED BY <1>1, <1>2, <1>4, <1>5

LEMMA TotalNat ==
  ASSUME NEW s \in Seq(Nat)
  PROVE  Total(s) \in Nat
<1> DEFINE n == Len(s)
<1>0. n \in Nat
  OBVIOUS
<1>1. PICK g : Sums(g, s, n) /\ Total(s) = g[n]
  BY <1>0, TotalSums
<1> DEFINE T == {m \in Nat : m <= n => g[m] \in Nat}
<1>2. 0 \in T
  <2>1. g[0] = 0
    BY <1>0, <1>1 DEF Sums
  <2> QED BY <2>1
<1>3. ASSUME NEW m \in Nat, m \in T PROVE m + 1 \in T
  <2> SUFFICES ASSUME m + 1 <= n PROVE g[m + 1] \in Nat
    OBVIOUS
  <2>1. m + 1 \in 0..n /\ m + 1 # 0 /\ (m + 1) - 1 = m /\ m <= n /\ m + 1 \in 1..n
    BY <1>0
  <2>2. g[m + 1] = g[m] + s[m + 1]
    BY <1>1, <2>1 DEF Sums
  <2>3. s[m + 1] \in Nat /\ g[m] \in Nat
    BY <1>3, <2>1
  <2> QED BY <2>2, <2>3
<1> HIDE DEF T
<1>4. n \in T
  BY <1>0, <1>2, <1>3, Induct
<1> QED BY <1>0, <1>1, <1>4 DEF T
-----------------------------------------------------------------------------
(* Runs of bytes and of elements.                                           *)
LEMMA ReadAtFacts ==
  ASSUME NEW p \in Nat, NEW n \in Nat
  PROVE  /\ ReadAt(p, n) \in Seq(Nat) /\ Len(ReadAt(p, n)) = n
         /\ \A k \in 1..n : ReadAt(p, n)[k] = p + k - 1
         /\ n = 0 => ReadAt(p, n) = <<>>
<1>1. \A k \in 1..n : p + k - 1 \in Nat
  OBVIOUS
<1>2. ReadAt(p, n) \in Seq(Nat) /\ Len(ReadAt(p, n)) = n
  BY <1>1 DEF ReadAt
<1>3. n = 0 => ReadAt(p, n) = <<>>
  BY <1>2
<1> QED BY <1>2, <1>3 DEF ReadAt

LEMMA SeqSame ==
  ASSUME NEW S, NEW s \in Seq(S), NEW R, NEW t \in Seq(R), Len(s) = Len(t), \A k \in 1..Len(s) : s[k] = t[k]
  PROVE  s = t
OBVIOUS

LEMMA ReadAtOn ==
  ASSUME NEW p \in Nat, NEW m \in Nat, NEW n \in Nat
  PROVE  ReadAt(p, m) \o ReadAt(p + m, n) = ReadAt(p, m + n)
<1> DEFINE a == ReadAt(p, m)
           b == ReadAt(p + m, n)
           c == ReadAt(p, m + n)
<1>1. a \in Seq(Nat) /\ Len(a) = m /\ (\A k \in 1..m : a[k] = p + k - 1)
  BY ReadAtFacts
<1>2. b \in Seq(Nat) /\ Len(b) = n /\ (\A k \in 1..n : b[k] = (p + m) + k - 1)
  <2>1. p + m \in Nat
    OBVIOUS
  <2> QED BY <2>1, ReadAtFacts
<1>3. c \in Seq(Nat) /\ Len(c) = m + n /\ (\A k \in 1..(m + n) : c[k] = p + k - 1)
  <2>1. m + n \in Nat
    OBVIOUS
  <2> QED BY <2>1, ReadAtFacts
<1> HIDE DEF a, b, c
<1>4. a \o b \in Seq(Nat) /\ Len(a \o b) = m + n
  <2>1. a \in Seq(Nat) /\ b \in Seq(Nat) /\ Len(a) = m /\ Len(b) = n
    BY <1>1, <1>2
  <2> QED BY <2>1, ConcatProperties
<1>5. ASSUME NEW k \in 1..(m + n) PROVE (a \o b)[k] = c[k]
  <2>0. (a \o b)[k] = IF k <= m THEN a[k] ELSE b[k - m]
    <3>1. a \in Seq(Nat) /\ b \in Seq(Nat) /\ Len(a) = m /\ Len(b) = n
      BY <1>1, <1>2
    <3> QED BY <3>1, ConcatProperties
  <2>1. CASE k <= m
    BY <1>1, <1>3, <2>0, <2>1
  <2>2. CASE k > m
    <3>1. k - m \in 1..n
      BY <2>2
    <3>2. (a \o b)[k] = b[k - m]
      BY <2>0, <2>2
    <3>3. b[k - m] = (p + m) + (k - m) - 1
      BY <1>2, <3>1
    <3>4. (p + m) + (k - m) - 1 = p + k - 1 /\ c[k] = p + k - 1
      BY <1>3
    <3> QED BY <3>2, <3>3, <3>4
  <2>3. k <= m \/ k > m
    OBVIOUS
  <2> QED BY <2>1, <2>2, <2>3
<1>6. a \o b = c
  BY <1>3, <1>4, <1>5, SeqSame
<1> QED BY <1>6 DEF a, b, c

LEMMA ReadAtPart ==
  ASSUME NEW p \in Nat, NEW n \in Nat, NEW i \in Nat, NEW m \in 0..(n - i)
  PROVE  SubSeq(ReadAt(p, n), i + 1, i + m) = ReadAt(p + i, m)
<1> DEFINE a == ReadAt(p, n)
           b == ReadAt(p + i, m)
<1>0. m \in Nat /\ i + m <= n
  OBVIOUS
<1>1. a \in Seq(Nat) /\ Len(a) = n /\ (\A k \in 1..n : a[k] = p + k - 1)
  BY ReadAtFacts
<1>2. b \in Seq(Nat) /\ Len(b) = m /\ (\A k \in 1..m : b[k] = (p + i) + k - 1)
  <2>1. p + i \in Nat
    OBVIOUS
  <2> QED BY <1>0, <2>1, ReadAtFacts
<1> HIDE DEF a, b
<1> DEFINE c == SubSeq(a, i + 1, i + m)
<1>3. c \in Seq(Nat) /\ Len(c) = m
  BY <1>0, <1>1
<1>4. ASSUME NEW k \in 1..m PROVE c[k] = a[i + k]
  BY <1>0, <1>1
<1>5. ASSUME NEW k \in 1..m PROVE c[k] = b[k]
  <2>1. i + k \in 1..n
    BY <1>0
  <2> HIDE DEF c
  <2> QED BY <1>1, <1>2, <1>4, <2>1
<1> HIDE DEF c
<1>6. c = b
  BY <1>2, <1>3, <1>5, SeqSame
<1> QED BY <1>6 DEF a, b, c

LEMMA FromFacts ==
  ASSUME NEW a, NEW n \in Nat
  PROVE  /\ Len(From(a, n)) = n
         /\ \A k \in 1..n : From(a, n)[k] = Element(a + k)
         /\ n = 0 => From(a, n) = <<>>
<1>1. Len(From(a, n)) = n
  BY DEF From
<1>2. n = 0 => From(a, n) = <<>>
  BY DEF From
<1> QED BY <1>1, <1>2 DEF From

LEMMA FromType ==
  ASSUME NEW a, NEW n \in Nat, NEW S, \A k \in 1..n : Element(a + k) \in S
  PROVE  From(a, n) \in Seq(S)
BY DEF From

LEMMA IsFrom ==
  ASSUME NEW S, NEW s \in Seq(S), NEW a, NEW n \in Nat, Len(s) = n,
         \A k \in 1..n : s[k] = Element(a + k)
  PROVE  s = From(a, n)
<1>1. From(a, n) \in Seq(S)
  <2>1. \A k \in 1..n : Element(a + k) \in S
    <3> SUFFICES ASSUME NEW k \in 1..n PROVE Element(a + k) \in S
      OBVIOUS
    <3>1. s[k] \in S
      BY ElementOfSeq
    <3> QED BY <3>1
  <2> QED BY <2>1, FromType
<1>2. Len(From(a, n)) = n /\ \A k \in 1..n : From(a, n)[k] = Element(a + k)
  BY FromFacts
<1> HIDE DEF From
<1> QED BY <1>1, <1>2, SeqSame

LEMMA FromOn ==
  ASSUME NEW a \in Nat, NEW m \in Nat, NEW n \in Nat
  PROVE  From(a, m) \o From(a + m, n) = From(a, m + n)
<1> DEFINE s == From(a, m)
           t == From(a + m, n)
           S == {Element(a + k) : k \in 1..m} \cup {Element((a + m) + k) : k \in 1..n}
<1>1. s \in Seq(S) /\ Len(s) = m /\ (\A k \in 1..m : s[k] = Element(a + k))
  <2>1. \A k \in 1..m : Element(a + k) \in S
    OBVIOUS
  <2> HIDE DEF S
  <2> QED BY <2>1, FromFacts, FromType
<1>2. t \in Seq(S) /\ Len(t) = n /\ (\A k \in 1..n : t[k] = Element((a + m) + k))
  <2>1. \A k \in 1..n : Element((a + m) + k) \in S
    OBVIOUS
  <2> HIDE DEF S
  <2> QED BY <2>1, FromFacts, FromType
<1> HIDE DEF s, t, S
<1>3. /\ s \o t \in Seq(S) /\ Len(s \o t) = m + n
      /\ \A k \in 1..(m + n) : (s \o t)[k] = IF k <= m THEN s[k] ELSE t[k - m]
  <2>1. s \in Seq(S) /\ t \in Seq(S) /\ Len(s) = m /\ Len(t) = n
    BY <1>1, <1>2
  <2> QED BY <2>1, ConcatProperties
<1>4. ASSUME NEW k \in 1..(m + n) PROVE (s \o t)[k] = Element(a + k)
  <2>1. CASE k <= m
    BY <1>1, <1>3, <2>1
  <2>2. CASE k > m
    <3>1. k - m \in 1..n /\ (a + m) + (k - m) = a + k
      BY <2>2
    <3>2. (s \o t)[k] = t[k - m]
      BY <1>3, <2>2
    <3>3. t[k - m] = Element((a + m) + (k - m))
      BY <1>2, <3>1
    <3> QED BY <3>1, <3>2, <3>3
  <2>3. k <= m \/ k > m
    OBVIOUS
  <2> QED BY <2>1, <2>2, <2>3
<1>5. s \o t = From(a, m + n)
  <2>1. m + n \in Nat
    OBVIOUS
  <2> QED BY <1>3, <1>4, <2>1, IsFrom
<1> QED BY <1>5 DEF s, t

LEMMA FromOne ==
  ASSUME NEW a \in Nat, NEW n \in Nat
  PROVE  Append(From(a, n), Element(a + n + 1)) = From(a, n + 1)
<1> DEFINE s == From(a, n)
           S == {Element(a + k) : k \in 1..n} \cup {Element(a + n + 1)}
           t == Append(s, Element(a + n + 1))
<1>1. s \in Seq(S) /\ Len(s) = n /\ (\A k \in 1..n : s[k] = Element(a + k))
  <2>1. \A k \in 1..n : Element(a + k) \in S
    OBVIOUS
  <2> HIDE DEF S
  <2> QED BY <2>1, FromFacts, FromType
<1>2. Element(a + n + 1) \in S
  OBVIOUS
<1> HIDE DEF s, S
<1>3. /\ t \in Seq(S) /\ Len(t) = n + 1
      /\ \A k \in 1..n : t[k] = s[k]
      /\ t[n + 1] = Element(a + n + 1)
  BY <1>1, <1>2, AppendProperties
<1>4. ASSUME NEW k \in 1..(n + 1) PROVE t[k] = Element(a + k)
  <2> HIDE DEF t
  <2>1. CASE k <= n
    BY <1>1, <1>3, <2>1
  <2>2. CASE k = n + 1
    <3>1. a + k = a + n + 1
      BY <2>2
    <3> QED BY <1>3, <2>2, <3>1
  <2> QED BY <2>1, <2>2
<1> HIDE DEF t
<1>5. t = From(a, n + 1)
  BY <1>3, <1>4, IsFrom
<1> QED BY <1>5 DEF s, t

LEMMA FromPart ==
  ASSUME NEW a \in Nat, NEW n \in Nat, NEW i \in Nat, NEW m \in 0..(n - i)
  PROVE  SubSeq(From(a, n), i + 1, i + m) = From(a + i, m)
<1> DEFINE s == From(a, n)
           S == {Element(a + k) : k \in 1..n}
           t == SubSeq(s, i + 1, i + m)
<1>0. m \in Nat /\ i + m <= n
  OBVIOUS
<1>1. s \in Seq(S) /\ Len(s) = n /\ (\A k \in 1..n : s[k] = Element(a + k))
  <2>1. \A k \in 1..n : Element(a + k) \in S
    OBVIOUS
  <2> HIDE DEF S
  <2> QED BY <2>1, FromFacts, FromType
<1> HIDE DEF s, S
<1>2. t \in Seq(S) /\ Len(t) = m /\ \A k \in 1..m : t[k] = s[i + k]
  <2>1. s \in Seq(S) /\ Len(s) = n
    BY <1>1
  <2>2. t \in Seq(S) /\ Len(t) = m
    BY <1>0, <2>1
  <2>3. \A k \in 1..m : t[k] = s[i + k]
    BY <1>0, <2>1
  <2> QED BY <2>2, <2>3
<1>3. ASSUME NEW k \in 1..m PROVE t[k] = Element((a + i) + k)
  <2>1. i + k \in 1..n /\ (a + i) + k = a + (i + k)
    BY <1>0
  <2> HIDE DEF t
  <2> QED BY <1>1, <1>2, <2>1
<1> HIDE DEF t
<1>4. t = From(a + i, m)
  BY <1>0, <1>2, <1>3, IsFrom
<1> QED BY <1>4 DEF s, t
-----------------------------------------------------------------------------
(* FlattenSeq, the chunks one after the other.                              *)
Joins(g, s, n) == g = [k \in 1..n |-> IF k = 1 THEN s[k] ELSE g[k - 1] \o s[k]]

LEMMA JoinsExist ==
  ASSUME NEW s, NEW m \in Nat
  PROVE  \E g : Joins(g, s, m)
<1> DEFINE T == {n \in Nat : \E g : Joins(g, s, n)}
<1>1. 0 \in T
  <2> DEFINE g == [k \in 1..0 |-> 0]
  <2>1. g = [k \in 1..0 |-> IF k = 1 THEN s[k] ELSE g[k - 1] \o s[k]]
    OBVIOUS
  <2>2. Joins(g, s, 0)
    BY <2>1 DEF Joins
  <2> QED BY <2>2
<1>2. ASSUME NEW n \in Nat, n \in T PROVE n + 1 \in T
  <2>1. PICK g : Joins(g, s, n)
    BY <1>2
  <2> DEFINE last == IF n = 0 THEN s[n + 1] ELSE g[n] \o s[n + 1]
             h == [k \in 1..(n + 1) |-> IF k <= n THEN g[k] ELSE last]
             e(k) == IF k = 1 THEN s[k] ELSE h[k - 1] \o s[k]
  <2>2. ASSUME NEW k \in 1..(n + 1) PROVE h[k] = e(k)
    <3>1. CASE k <= n /\ k = 1
      <4>1. k \in 1..n
        BY <3>1
      <4>2. g[k] = s[k]
        BY <2>1, <3>1, <4>1 DEF Joins
      <4> QED BY <3>1, <4>2
    <3>2. CASE k <= n /\ k # 1
      <4>1. k \in 1..n /\ k - 1 \in 1..n /\ k - 1 \in 1..(n + 1) /\ k - 1 <= n
        BY <3>2
      <4>2. g[k] = g[k - 1] \o s[k]
        BY <2>1, <3>2, <4>1 DEF Joins
      <4>3. h[k] = g[k] /\ h[k - 1] = g[k - 1]
        BY <3>2, <4>1
      <4> QED BY <3>2, <4>2, <4>3
    <3>3. CASE k = n + 1
      <4>1. h[k] = last
        BY <3>3
      <4>2. n # 0 => n \in 1..(n + 1) /\ n <= n /\ h[n] = g[n]
        OBVIOUS
      <4>3. k - 1 = n /\ (k = 1 <=> n = 0)
        BY <3>3
      <4> HIDE DEF h
      <4> QED BY <3>3, <4>1, <4>2, <4>3
    <3> QED BY <3>1, <3>2, <3>3
  <2>3. h = [k \in 1..(n + 1) |-> h[k]]
    OBVIOUS
  <2> HIDE DEF h
  <2>4. h = [k \in 1..(n + 1) |-> e(k)]
    BY <2>2, <2>3
  <2>5. Joins(h, s, n + 1)
    BY <2>4 DEF Joins
  <2> QED BY <2>5
<1> HIDE DEF T
<1>3. m \in T
  BY <1>1, <1>2, Induct
<1> QED BY <1>3 DEF T

LEMMA JoinsUnique ==
  ASSUME NEW s, NEW t, NEW g, NEW h, NEW i \in Nat, NEW j \in Nat, NEW n \in Nat \ {0},
         Joins(g, s, i), Joins(h, t, j), n <= i, n <= j, \A k \in 1..n : s[k] = t[k]
  PROVE  g[n] = h[n]
<1> DEFINE T == {m \in Nat : m + 1 <= n => g[m + 1] = h[m + 1]}
<1>1. 0 \in T
  <2>1. 1 \in 1..i /\ 1 \in 1..j /\ 1 \in 1..n
    OBVIOUS
  <2>2. g[1] = s[1] /\ h[1] = t[1]
    BY <2>1 DEF Joins
  <2> QED BY <2>1, <2>2
<1>2. ASSUME NEW m \in Nat, m \in T PROVE m + 1 \in T
  <2> SUFFICES ASSUME (m + 1) + 1 <= n PROVE g[(m + 1) + 1] = h[(m + 1) + 1]
    OBVIOUS
  <2> DEFINE k == (m + 1) + 1
  <2>1. k \in 1..i /\ k \in 1..j /\ k # 1 /\ k - 1 = m + 1 /\ m + 1 <= n /\ k \in 1..n
    OBVIOUS
  <2>2. g[m + 1] = h[m + 1] /\ s[k] = t[k]
    BY <1>2, <2>1
  <2> HIDE DEF k
  <2>3. g[k] = g[k - 1] \o s[k] /\ h[k] = h[k - 1] \o t[k]
    BY <2>1 DEF Joins
  <2>4. g[k] = h[k]
    BY <2>1, <2>2, <2>3
  <2> QED BY <2>4 DEF k
<1> HIDE DEF T
<1>3. n - 1 \in T
  BY <1>1, <1>2, Induct
<1>4. (n - 1) + 1 = n /\ n <= n
  OBVIOUS
<1> QED BY <1>3, <1>4 DEF T

LEMMA FlattenJoins ==
  ASSUME NEW s, Len(s) \in Nat \ {0}
  PROVE  \E g : Joins(g, s, Len(s)) /\ FlattenSeq(s) = g[Len(s)]
<1> DEFINE n == Len(s)
           g == CHOOSE f : f = [k \in 1..n |-> IF k = 1 THEN s[k] ELSE f[k - 1] \o s[k]]
<1>1. \E f : Joins(f, s, n)
  BY JoinsExist
<1>2. g = [k \in 1..n |-> IF k = 1 THEN s[k] ELSE g[k - 1] \o s[k]]
  BY <1>1 DEF Joins
<1>3. FlattenSeq(s) = g[n]
  <2>1. Len(s) # 0
    OBVIOUS
  <2> QED BY <2>1 DEF FlattenSeq
<1> HIDE DEF g
<1>4. Joins(g, s, n)
  BY <1>2 DEF Joins
<1> QED BY <1>3, <1>4

LEMMA FlattenNone == FlattenSeq(<<>>) = <<>>
BY DEF FlattenSeq

LEMMA FlattenOne ==
  ASSUME NEW T, NEW c \in Seq(T)
  PROVE  FlattenSeq(<<c>>) = c
<1> DEFINE s == <<c>>
<1>1. Len(s) = 1 /\ Len(s) \in Nat \ {0} /\ s[1] = c
  OBVIOUS
<1> HIDE DEF s
<1>2. PICK g : Joins(g, s, 1) /\ FlattenSeq(s) = g[1]
  BY <1>1, FlattenJoins
<1>3. g[1] = s[1]
  BY <1>2 DEF Joins
<1> QED BY <1>1, <1>2, <1>3 DEF s

LEMMA FlattenMore ==
  ASSUME NEW T, NEW s \in Seq(Seq(T)), NEW c \in Seq(T)
  PROVE  FlattenSeq(Append(s, c)) = FlattenSeq(s) \o c
<1> DEFINE t == Append(s, c)
           n == Len(s)
<1>0. /\ n \in Nat /\ n + 1 \in Nat \ {0}
      /\ Len(t) = n + 1 /\ (\A k \in 1..n : t[k] = s[k]) /\ t[n + 1] = c
  BY AppendProperties
<1> HIDE DEF t
<1>1. PICK h : Joins(h, t, n + 1) /\ FlattenSeq(t) = h[n + 1]
  BY <1>0, FlattenJoins
<1>2. n + 1 \in 1..(n + 1) /\ (n + 1) - 1 = n
  BY <1>0
<1>3. CASE n = 0
  <2>1. s = <<>>
    BY <1>3
  <2>2. h[1] = c
    BY <1>0, <1>1, <1>2, <1>3 DEF Joins
  <2>3. <<>> \o c = c
    BY ConcatEmptySeq
  <2> QED BY <1>1, <1>3, <2>1, <2>2, <2>3, FlattenNone DEF t
<1>4. CASE n # 0
  <2>1. PICK g : Joins(g, s, n) /\ FlattenSeq(s) = g[n]
    <3>1. n \in Nat \ {0}
      BY <1>0, <1>4
    <3> QED BY <3>1, FlattenJoins
  <2>2. h[n + 1] = h[n] \o c
    <3>1. n + 1 # 1
      BY <1>0, <1>4
    <3> QED BY <1>0, <1>1, <1>2, <3>1 DEF Joins
  <2>3. h[n] = g[n]
    <3>1. n \in Nat \ {0} /\ n <= n /\ n <= n + 1 /\ n \in Nat /\ n + 1 \in Nat
      BY <1>0, <1>4
    <3>2. \A k \in 1..n : s[k] = t[k]
      BY <1>0
    <3>3. Joins(g, s, n) /\ Joins(h, t, n + 1)
      BY <1>1, <2>1
    <3>4. g[n] = h[n]
      BY <3>1, <3>2, <3>3, JoinsUnique
    <3> QED BY <3>4
  <2> QED BY <1>1, <2>1, <2>2, <2>3 DEF t
<1> QED BY <1>3, <1>4
-----------------------------------------------------------------------------
(* Numbers.                                                                 *)
LEMMA TimesOn ==
  ASSUME NEW a \in Nat, NEW b \in Nat, NEW w \in Nat
  PROVE  /\ a * w \in Nat /\ (a + b) * w = a * w + b * w
         /\ a <= b => a * w <= b * w
         /\ w > 0 /\ a * w < (b + 1) * w => a <= b
<1>1. a * w \in Nat /\ b * w \in Nat /\ (a + b) * w = a * w + b * w
  BY SMT
<1>2. ASSUME NEW c \in Nat, NEW d \in Nat, c <= d PROVE c * w <= d * w
  <2>1. d - c \in Nat /\ d = c + (d - c)
    BY <1>2
  <2>2. (d - c) * w \in Nat /\ c * w \in Nat
    BY <2>1, SMT
  <2>3. d * w = c * w + (d - c) * w
    BY <2>1, SMT
  <2> QED BY <2>2, <2>3
<1>3. ASSUME w > 0, a * w < (b + 1) * w, ~(a <= b) PROVE FALSE
  <2>1. b + 1 \in Nat /\ b + 1 <= a
    BY <1>3
  <2>2. (b + 1) * w <= a * w
    BY <1>2, <2>1
  <2>3. (b + 1) * w \in Nat
    BY <2>1, SMT
  <2> QED BY <1>1, <1>3, <2>2, <2>3
<1> QED BY <1>1, <1>2, <1>3

LEMMA Divided ==
  ASSUME NEW n \in Nat, NEW w \in Nat, w > 0
  PROVE  /\ n \div w \in Nat /\ n % w \in 0..(w - 1)
         /\ n = (n \div w) * w + (n % w)
         /\ n - (n % w) = (n \div w) * w
<1>1. n \div w \in Nat /\ n % w \in 0..(w - 1)
  BY SMT
<1>2. n = (n \div w) * w + (n % w)
  BY SMT
<1>3. (n \div w) * w \in Nat
  BY <1>1, SMT
<1> QED BY <1>1, <1>2, <1>3

LEMMA DivideTimes ==
  ASSUME NEW a \in Nat, NEW r \in Nat, NEW w \in Nat, w > 0, r < w
  PROVE  (a * w + r) \div w = a /\ (a * w + r) % w = r
<1> DEFINE n == a * w + r
           q == n \div w
<1>1. a * w \in Nat /\ n \in Nat
  BY TimesOn
<1>2. q \in Nat /\ n % w \in 0..(w - 1) /\ n = q * w + (n % w)
  BY <1>1, Divided
<1>3. q * w \in Nat /\ (q + 1) * w = q * w + w /\ (a + 1) * w = a * w + w
  BY <1>2, TimesOn, SMT
<1> HIDE DEF q
<1>4. q * w < (a + 1) * w /\ a * w < (q + 1) * w
  <2> DEFINE x == q * w
             y == a * w
             m == n % w
  <2>1. x \in Nat /\ y \in Nat /\ m \in 0..(w - 1) /\ y + r = x + m
    BY <1>1, <1>2, <1>3
  <2>2. (q + 1) * w = x + w /\ (a + 1) * w = y + w
    BY <1>3
  <2> HIDE DEF x, y, m
  <2>3. x < y + w /\ y < x + w
    BY <2>1
  <2> QED BY <2>2, <2>3 DEF x, y
<1>5. q <= a /\ a <= q
  BY <1>2, <1>4, TimesOn
<1>6. q = a
  BY <1>2, <1>5
<1>7. n % w = r
  <2> DEFINE x == q * w
             m == n % w
  <2>1. x \in Nat /\ m \in 0..(w - 1) /\ n = x + m /\ n = x + r
    BY <1>2, <1>3, <1>6
  <2> HIDE DEF x, m, n
  <2>2. m = r
    BY <2>1
  <2> QED BY <2>2 DEF m
<1> QED BY <1>6, <1>7 DEF q

LEMMA Smaller ==
  ASSUME NEW a \in Nat, NEW b \in Nat
  PROVE  /\ Least(a, b) \in Nat /\ Least(a, b) <= a /\ Least(a, b) <= b
         /\ Least(a, b) = a \/ Least(a, b) = b
         /\ Largest(a, b) \in Nat /\ a <= Largest(a, b) /\ b <= Largest(a, b)
         /\ Largest(a, b) = a \/ Largest(a, b) = b
BY DEF Least, Largest
-----------------------------------------------------------------------------
(* The vector that is read.                                                 *)
Kinds == IF IsText THEN {"str", "na", "ref"} ELSE {"cell"}

LEMMA JobFacts ==
  ASSUME job \in Jobs
  PROVE  /\ Width \in Nat /\ (~IsText => Width > 0)
         /\ Items \in Seq([t : Kinds, len : Nat, to : Nat]) /\ N \in Nat
         /\ \A k \in 1..N : Items[k].t \in Kinds /\ Items[k].len \in Nat
         /\ job.user \in {"iterator", "range", "callback", "file"} /\ job.lazy \in BOOLEAN
         /\ job.elements \in Nat \ {0} /\ job.limit \in Nat
         /\ job.start \in Nat /\ job.count \in Nat
         /\ Ranged => job.lazy
         /\ ~Ranged => job.start = 0 /\ job.count = 0
         /\ ~job.lazy => \A k \in 1..N : Items[k].t # "ref"
         /\ job.user = "file" => job.elements = 1
<1>1. /\ job.vec \in Vectors
      /\ job.user \in {"iterator", "range", "callback", "file"} /\ job.lazy \in BOOLEAN
      /\ job.elements \in Elements /\ job.limit \in Limits
      /\ job.start \in 0..Reach /\ job.count \in 0..Reach
  BY DEF Jobs
<1>2. /\ Ranged => job.lazy
      /\ ~Ranged => job.start = 0 /\ job.count = 0
      /\ job.user = "file" => job.elements = 1
      /\ ~job.lazy => \A k \in 1..N : Items[k].t # "ref"
  BY DEF Jobs, Ranged, N, Items
<1>3. /\ job.elements \in Nat \ {0} /\ job.limit \in Nat
      /\ job.start \in Nat /\ job.count \in Nat
  <2>1. Elements \subseteq Nat \ {0} /\ Limits \subseteq Nat /\ Reach \in Nat
    BY LazyAssumption
  <2>2. job.elements \in Nat \ {0} /\ job.limit \in Nat
    BY <1>1, <2>1
  <2>3. job.start \in Nat /\ job.count \in Nat
    BY <1>1, <2>1
  <2> QED BY <2>2, <2>3
<1>4. Width \in Nat /\ Items \in Seq([t : Kinds, len : Nat, to : Nat])
  BY <1>1, LazyAssumption DEF Width, Items, IsText, Kinds
<1>5. N \in Nat
  BY <1>4 DEF N
<1>6. ~IsText => Width > 0
  BY <1>4 DEF IsText
<1>7. ASSUME NEW k \in 1..N PROVE Items[k].t \in Kinds /\ Items[k].len \in Nat
  <2>1. Items[k] \in [t : Kinds, len : Nat, to : Nat]
    BY <1>4, ElementOfSeq DEF N
  <2> QED BY <2>1
<1> QED BY <1>1, <1>2, <1>3, <1>4, <1>5, <1>6, <1>7

LEMMA WireLenFacts ==
  ASSUME job \in Jobs, NEW k \in 1..N
  PROVE  /\ WireLen(Items[k]) \in Nat
         /\ IsText => WireLen(Items[k]) > 0
         /\ ~IsText => WireLen(Items[k]) = Width
<1>1. Items[k].t \in Kinds /\ Items[k].len \in Nat /\ Width \in Nat
  BY JobFacts
<1>2. CASE IsText
  <2>1. Items[k].t \in {"str", "na", "ref"}
    BY <1>1, <1>2 DEF Kinds
  <2>2. /\ Items[k].t = "str" => WireLen(Items[k]) = 2 + Items[k].len
        /\ Items[k].t = "na" => WireLen(Items[k]) = 2
        /\ Items[k].t = "ref" => WireLen(Items[k]) = 1
    BY DEF WireLen
  <2> QED BY <1>1, <1>2, <2>1, <2>2
<1>3. CASE ~IsText
  <2>1. Items[k].t = "cell"
    BY <1>1, <1>3 DEF Kinds
  <2> QED BY <1>1, <1>3, <2>1 DEF WireLen
<1> QED BY <1>2, <1>3

LEMMA PlaceFacts ==
  ASSUME job \in Jobs
  PROVE  /\ Place(1) = 0
         /\ \A k \in 1..(N + 1) : Place(k) \in Nat
         /\ \A k \in 1..N : Place(k + 1) = Place(k) + WireLen(Items[k])
<1> DEFINE before(k) == [j \in 1..(k - 1) |-> WireLen(Items[j])]
<1>0. N \in Nat
  BY JobFacts
<1>1. Place(1) = 0
  <2>1. Len(before(1)) = 0
    OBVIOUS
  <2> QED BY <2>1, TotalNone DEF Place
<1>2. ASSUME NEW k \in 1..(N + 1) PROVE Place(k) \in Nat
  <2>1. k - 1 \in Nat /\ \A j \in 1..(k - 1) : WireLen(Items[j]) \in Nat
    <3> SUFFICES ASSUME NEW j \in 1..(k - 1) PROVE WireLen(Items[j]) \in Nat
      BY <1>0
    <3>1. j \in 1..N
      BY <1>0
    <3> QED BY <3>1, WireLenFacts
  <2>2. before(k) \in Seq(Nat)
    BY <2>1
  <2> HIDE DEF before
  <2>3. Total(before(k)) \in Nat
    BY <2>2, TotalNat
  <2> QED BY <2>3 DEF Place, before
<1>3. ASSUME NEW k \in 1..N PROVE Place(k + 1) = Place(k) + WireLen(Items[k])
  <2>1. k - 1 \in Nat /\ (k + 1) - 1 = k /\ (k - 1) + 1 = k /\ k \in 1..k
    OBVIOUS
  <2>2. Len(before(k)) = k - 1 /\ Len(before(k + 1)) = (k - 1) + 1
    BY <2>1
  <2>3. \A j \in 1..(k - 1) : before(k + 1)[j] = before(k)[j]
    BY <2>1
  <2>4. before(k + 1)[(k - 1) + 1] = WireLen(Items[k])
    BY <2>1
  <2> HIDE DEF before
  <2>5. Total(before(k + 1)) = Total(before(k)) + before(k + 1)[(k - 1) + 1]
    BY <2>1, <2>2, <2>3, TotalMore
  <2> QED BY <2>4, <2>5 DEF Place, before
<1> QED BY <1>1, <1>2, <1>3

LEMMA PlaceRises ==
  ASSUME job \in Jobs, NEW j \in 1..(N + 1), NEW k \in 1..(N + 1), j <= k
  PROVE  Place(j) <= Place(k) /\ (IsText /\ j # k => Place(j) < Place(k))
<1>0. N \in Nat
  BY JobFacts
<1> DEFINE T == {n \in Nat : j + n <= N + 1 =>
                   Place(j) <= Place(j + n) /\ (IsText /\ n # 0 => Place(j) < Place(j + n))}
<1>1. 0 \in T
  <2>1. j + 0 = j /\ Place(j) \in Nat
    BY PlaceFacts
  <2> QED BY <2>1
<1>2. ASSUME NEW n \in Nat, n \in T PROVE n + 1 \in T
  <2> SUFFICES ASSUME j + (n + 1) <= N + 1
               PROVE  Place(j) <= Place(j + (n + 1)) /\ (IsText => Place(j) < Place(j + (n + 1)))
    OBVIOUS
  <2>1. j + n \in 1..N /\ j + n \in 1..(N + 1) /\ j + (n + 1) = (j + n) + 1 /\ j + n <= N + 1
    BY <1>0
  <2> DEFINE a == Place(j)
             b == Place(j + n)
             d == WireLen(Items[j + n])
  <2>2. Place(j + (n + 1)) = b + d
    BY <2>1, PlaceFacts
  <2>3. a \in Nat /\ b \in Nat
    BY <2>1, PlaceFacts
  <2>4. d \in Nat /\ (IsText => d > 0)
    BY <2>1, WireLenFacts
  <2>5. a <= b
    BY <1>2, <2>1
  <2> HIDE DEF a, b, d
  <2>6. a <= b + d /\ (IsText => a < b + d)
    BY <2>3, <2>4, <2>5
  <2> QED BY <2>2, <2>6 DEF a
<1> HIDE DEF T
<1>3. k - j \in Nat /\ j + (k - j) = k /\ (k - j = 0 => j = k) /\ k <= N + 1
  BY <1>0
<1>4. k - j \in T
  BY <1>1, <1>2, <1>3, Induct
<1> QED BY <1>3, <1>4 DEF T

LEMMA PlaceCells ==
  ASSUME job \in Jobs, ~IsText
  PROVE  /\ \A k \in 0..N : Place(k + 1) = k * Width
         /\ SpanLen = N * Width
<1>0. N \in Nat /\ Width \in Nat
  BY JobFacts
<1> DEFINE T == {n \in Nat : n <= N => Place(n + 1) = n * Width}
<1>1. 0 \in T
  <2>1. Place(0 + 1) = 0 /\ 0 * Width = 0
    BY <1>0, PlaceFacts
  <2> QED BY <2>1
<1>2. ASSUME NEW n \in Nat, n \in T PROVE n + 1 \in T
  <2> SUFFICES ASSUME n + 1 <= N PROVE Place((n + 1) + 1) = (n + 1) * Width
    OBVIOUS
  <2>1. n + 1 \in 1..N /\ n <= N
    BY <1>0
  <2>2. Place((n + 1) + 1) = Place(n + 1) + Width
    BY <2>1, PlaceFacts, WireLenFacts
  <2>3. Place(n + 1) = n * Width
    BY <1>2, <2>1
  <2>4. (n + 1) * Width = n * Width + Width
    BY <1>0, SMT
  <2> QED BY <2>2, <2>3, <2>4
<1> HIDE DEF T
<1>3. ASSUME NEW k \in 0..N PROVE Place(k + 1) = k * Width
  <2>1. k \in T
    BY <1>0, <1>1, <1>2, Induct
  <2> QED BY <1>0, <2>1 DEF T
<1>4. SpanLen = N * Width
  BY <1>0, <1>3 DEF SpanLen
<1> QED BY <1>3, <1>4

LEMMA CellElement ==
  ASSUME job \in Jobs, ~IsText, NEW k \in 1..N
  PROVE  Element(k) = k
<1>1. Items[k].t = "cell"
  BY JobFacts DEF Kinds
<1> QED BY <1>1 DEF Element, Plain

LEMMA OwnedElement ==
  ASSUME job \in Jobs, NEW k \in 1..N, Items[k].t # "ref"
  PROVE  Element(k) = Plain(k) /\ Element(k) \in 0..Garbled /\ Element(k) \in 0..N
<1>1. N \in Nat
  BY JobFacts
<1> QED BY <1>1 DEF Element, Plain, NA, Garbled

(* Whole elements are what they were.                                       *)
LEMMA DecodeCells ==
  ASSUME job \in Jobs, ~IsText, NEW a \in Nat, NEW m \in Nat, a + m <= N
  PROVE  Decode(ReadAt(a * Width, m * Width)) = From(a, m)
<1> DEFINE w == Width
           b == ReadAt(a * w, m * w)
           d == Decode(b)
<1>1. w \in Nat /\ w > 0 /\ N \in Nat
  BY JobFacts
<1>2. a * w \in Nat /\ m * w \in Nat
  BY <1>1, TimesOn
<1>3. Len(b) = m * w
  BY <1>2, ReadAtFacts
<1>4. Len(b) \div w = m
  <2>1. (m * w + 0) \div w = m
    BY <1>1, DivideTimes
  <2> QED BY <1>2, <1>3, <2>1
<1>5. ASSUME NEW k \in 1..m PROVE d[k] = a + k
  <2> DEFINE e == b[(k - 1) * w + 1] \div w + 1
  <2>1. k - 1 \in Nat /\ (k - 1) * w \in Nat /\ k * w = (k - 1) * w + w /\ k * w <= m * w
    <3>1. k - 1 \in Nat /\ k \in Nat /\ k <= m /\ k = (k - 1) + 1
      OBVIOUS
    <3>2. (k - 1) * w \in Nat /\ k * w <= m * w
      BY <1>1, <3>1, TimesOn
    <3>3. ((k - 1) + 1) * w = (k - 1) * w + 1 * w
      BY <1>1, <3>1, TimesOn
    <3>4. 1 * w = w
      BY <1>1
    <3> QED BY <3>1, <3>2, <3>3, <3>4
  <2>2. (k - 1) * w + 1 \in 1..(m * w)
    BY <1>1, <1>2, <2>1
  <2>3. b[(k - 1) * w + 1] = a * w + (k - 1) * w
    <3>1. b[(k - 1) * w + 1] = a * w + ((k - 1) * w + 1) - 1
      BY <1>2, <2>2, ReadAtFacts
    <3> HIDE DEF b, w
    <3> QED BY <1>2, <2>1, <3>1
  <2>4. a * w + (k - 1) * w = (a + (k - 1)) * w /\ a + (k - 1) \in Nat
    BY <1>1, <2>1, TimesOn
  <2>5. e = a + k
    <3>1. ((a + (k - 1)) * w + 0) \div w = a + (k - 1)
      BY <1>1, <2>4, DivideTimes
    <3>2. (a + (k - 1)) * w + 0 = (a + (k - 1)) * w
      BY <1>1, <2>4, TimesOn
    <3> QED BY <2>3, <2>4, <3>1, <3>2
  <2>6. SubSeq(b, (k - 1) * w + 1, k * w) = ReadAt(a * w + (k - 1) * w, w)
    <3>1. (k - 1) * w + w <= m * w
      BY <2>1
    <3> DEFINE i == (k - 1) * w
    <3>2. i \in Nat /\ i + w <= m * w
      BY <2>1, <3>1
    <3> DEFINE z == m * w
               p == a * w
    <3>3. i \in Nat /\ z \in Nat /\ p \in Nat /\ w \in Nat /\ i + w <= z
      BY <1>1, <1>2, <3>2
    <3> HIDE DEF i, z, p, w
    <3>4. w \in 0..(z - i)
      BY <3>3
    <3>5. SubSeq(ReadAt(p, z), i + 1, i + w) = ReadAt(p + i, w)
      BY <3>3, <3>4, ReadAtPart, Zenon
    <3> QED BY <2>1, <3>5 DEF i, z, p, w
  <2>7. Place(e) = (a + (k - 1)) * w
    <3>1. a + (k - 1) \in 0..N /\ e = (a + (k - 1)) + 1
      BY <1>1, <2>5
    <3> QED BY <3>1, PlaceCells
  <2>8. SubSeq(b, (k - 1) * w + 1, k * w) = ReadAt(Place(e), w)
    BY <2>4, <2>6, <2>7
  <2>9. d[k] = IF SubSeq(b, (k - 1) * w + 1, k * w) = ReadAt(Place(e), w) THEN e ELSE Garbled
    BY <1>4 DEF Decode
  <2> QED BY <2>5, <2>8, <2>9
<1>6. d \in Seq(Nat) /\ Len(d) = m
  <2>1. d = [k \in 1..m |-> d[k]]
    BY <1>4 DEF Decode
  <2>2. \A k \in 1..m : d[k] \in Nat
    BY <1>5
  <2> HIDE DEF d
  <2> QED BY <2>1, <2>2
<1>7. ASSUME NEW k \in 1..m PROVE d[k] = Element(a + k)
  <2>1. a + k \in 1..N
    BY <1>1
  <2> QED BY <1>5, <2>1, CellElement
<1> HIDE DEF d
<1>8. d = From(a, m)
  BY <1>6, <1>7, IsFrom
<1> QED BY <1>8 DEF d
-----------------------------------------------------------------------------
(* References.                                                              *)
LEMMA SpelledFacts ==
  ASSUME job \in Jobs, NEW k \in 0..N
  PROVE  /\ IsFiniteSet(SpelledTo(k)) /\ Cardinality(SpelledTo(k)) \in Nat
         /\ k = 0 => Cardinality(SpelledTo(k)) = 0
         /\ k + 1 \in 1..N =>
              IF Items[k + 1].t # "ref"
              THEN Cardinality(SpelledTo(k + 1)) = Cardinality(SpelledTo(k)) + 1
              ELSE SpelledTo(k + 1) = SpelledTo(k)
<1>0. N \in Nat
  BY JobFacts
<1>1. IsFiniteSet(SpelledTo(k))
  <2>1. IsFiniteSet(1..N) /\ SpelledTo(k) \subseteq 1..N
    BY <1>0, FS_Interval DEF SpelledTo, Spelled
  <2> QED BY <2>1, FS_Subset
<1>2. Cardinality(SpelledTo(k)) \in Nat
  BY <1>1, FS_CardinalityType
<1>3. k = 0 => Cardinality(SpelledTo(k)) = 0
  <2> SUFFICES ASSUME k = 0 PROVE Cardinality(SpelledTo(k)) = 0
    OBVIOUS
  <2>1. SpelledTo(k) = {}
    BY DEF SpelledTo, Spelled
  <2> QED BY <2>1, FS_EmptySet
<1>4. ASSUME k + 1 \in 1..N, Items[k + 1].t # "ref"
      PROVE  Cardinality(SpelledTo(k + 1)) = Cardinality(SpelledTo(k)) + 1
  <2>1. SpelledTo(k + 1) = SpelledTo(k) \cup {k + 1} /\ k + 1 \notin SpelledTo(k)
    BY <1>0, <1>4 DEF SpelledTo, Spelled
  <2> QED BY <1>1, <2>1, FS_AddElement
<1>5. ASSUME k + 1 \in 1..N, Items[k + 1].t = "ref"
      PROVE  SpelledTo(k + 1) = SpelledTo(k)
  BY <1>0, <1>5 DEF SpelledTo, Spelled
<1> QED BY <1>1, <1>2, <1>3, <1>4, <1>5

(* The strings are numbered in their order: there is one k-th.              *)
LEMMA NthIs ==
  ASSUME job \in Jobs, NEW j \in Spelled
  PROVE  Nth(Cardinality(SpelledTo(j))) = j
<1> DEFINE c == Cardinality(SpelledTo(j))
<1>0. N \in Nat /\ j \in 1..N
  BY JobFacts DEF Spelled
<1>1. ASSUME NEW h \in Spelled, NEW i \in Spelled, h < i
      PROVE  Cardinality(SpelledTo(h)) # Cardinality(SpelledTo(i))
  <2>1. h \in 0..N /\ i \in 0..N
    BY <1>0 DEF Spelled
  <2>2. SpelledTo(h) \subseteq SpelledTo(i) /\ i \in SpelledTo(i) /\ i \notin SpelledTo(h)
    BY <1>0, <1>1 DEF SpelledTo, Spelled
  <2>3. IsFiniteSet(SpelledTo(i)) /\ IsFiniteSet(SpelledTo(h))
    BY <2>1, SpelledFacts
  <2>4. SpelledTo(h) # SpelledTo(i)
    BY <2>2
  <2>5. Cardinality(SpelledTo(i)) = Cardinality(SpelledTo(h)) => SpelledTo(i) = SpelledTo(h)
    <3>1. SpelledTo(h) \in SUBSET SpelledTo(i)
      BY <2>2
    <3> HIDE DEF SpelledTo
    <3> QED BY <2>3, <3>1, FS_Subset
  <2> QED BY <2>4, <2>5
<1>2. \A h \in Spelled : Cardinality(SpelledTo(h)) = c => h = j
  <2> SUFFICES ASSUME NEW h \in Spelled, Cardinality(SpelledTo(h)) = c, h # j PROVE FALSE
    OBVIOUS
  <2>1. h < j \/ j < h
    BY <1>0 DEF Spelled
  <2> QED BY <1>1, <2>1
<1>3. Nth(c) = CHOOSE i \in Spelled : Cardinality(SpelledTo(i)) = c
  BY DEF Nth, SpelledTo
<1> HIDE DEF SpelledTo, Spelled
<1>4. (CHOOSE i \in Spelled : Cardinality(SpelledTo(i)) = c) = j
  BY <1>2
<1> QED BY <1>3, <1>4

LEMMA RefElement ==
  ASSUME job \in Jobs, NEW k \in 1..N, Items[k].t = "ref",
         Items[k].to \in 1..Cardinality(SpelledTo(k - 1))
  PROVE  Element(k) = Plain(Nth(Items[k].to))
<1>0. N \in Nat
  BY JobFacts
<1>1. {j \in Spelled : j < k} = SpelledTo(k - 1)
  BY <1>0 DEF SpelledTo, Spelled
<1>2. Items[k].to \in 1..Cardinality({j \in Spelled : j < k})
  BY <1>1
<1> QED BY <1>2 DEF Element

(* The record that is read is the one whose flags word came first.          *)
LEMMA HereIs ==
  ASSUME job \in Jobs, IsText, NEW k \in 1..N, got[1] = Place(k)
  PROVE  Here = k
<1>0. N \in Nat
  BY JobFacts
<1>1. ASSUME NEW j \in 1..N, Place(j) = Place(k) PROVE j = k
  <2>1. j \in 1..(N + 1) /\ k \in 1..(N + 1) /\ Place(j) \in Nat /\ Place(k) \in Nat
    BY <1>0, PlaceFacts
  <2>2. (j <= k /\ j # k => Place(j) < Place(k)) /\ (k <= j /\ j # k => Place(k) < Place(j))
    BY <2>1, PlaceRises
  <2>3. j <= k \/ k <= j
    BY <1>0
  <2> QED BY <1>1, <2>1, <2>2, <2>3
<1> DEFINE at == {j \in 1..N : Place(j) = got[1]}
<1>2. k \in at /\ \A j \in at : j = k
  BY <1>1
<1>3. Here = IF at = {} THEN 0 ELSE CHOOSE j \in at : TRUE
  BY DEF Here
<1> HIDE DEF at
<1>4. (CHOOSE j \in at : TRUE) = k
  BY <1>2
<1> QED BY <1>2, <1>3, <1>4

LEMMA SizeMore ==
  ASSUME job \in Jobs, IsText, NEW c \in Seq(0..Garbled), NEW e \in 0..Garbled
  PROVE  /\ Size(Append(c, e)) = Size(c) + TextLen(e)
         /\ Size(c) \in Nat /\ TextLen(e) \in Nat
<1> DEFINE lens(s) == [k \in 1..Len(s) |-> TextLen(s[k])]
           d == Append(c, e)
           n == Len(c)
<1>0. N \in Nat /\ \A k \in 1..N : Items[k].len \in Nat
  BY JobFacts
<1>1. \A x : TextLen(x) \in Nat
  BY <1>0 DEF TextLen
<1>2. n \in Nat /\ Len(d) = n + 1 /\ (\A k \in 1..n : d[k] = c[k]) /\ d[n + 1] = e
  BY AppendProperties
<1> HIDE DEF d
<1>3. lens(c) \in Seq(Nat) /\ Len(lens(c)) = n /\ Len(lens(d)) = n + 1
  BY <1>1, <1>2
<1>4. (\A k \in 1..n : lens(d)[k] = lens(c)[k]) /\ lens(d)[n + 1] = TextLen(e)
  BY <1>2
<1> HIDE DEF lens
<1>5. Total(lens(d)) = Total(lens(c)) + lens(d)[n + 1]
  BY <1>2, <1>3, <1>4, TotalMore
<1>6. Total(lens(c)) \in Nat
  BY <1>3, TotalNat
<1>7. Size(c) = Total(lens(c)) /\ Size(d) = Total(lens(d))
  BY DEF Size, lens
<1> QED BY <1>1, <1>4, <1>5, <1>6, <1>7 DEF d

LEMMA SizeNone == ASSUME IsText PROVE Size(<<>>) = 0
<1> DEFINE s == [k \in 1..Len(<<>>) |-> TextLen((<<>>)[k])]
<1>1. Len(s) = 0
  OBVIOUS
<1> HIDE DEF s
<1>2. Total(s) = 0
  BY <1>1, TotalNone
<1> QED BY <1>2 DEF Size, s

(* All but the last.                                                        *)
LEMMA FrontAppend ==
  ASSUME NEW S, NEW s \in Seq(S), NEW e \in S
  PROVE  Front(Append(s, e)) = s
BY DEF Front

LEMMA FrontLast ==
  ASSUME NEW S, NEW s \in Seq(S), s # <<>>
  PROVE  /\ Front(s) \in Seq(S) /\ s[Len(s)] \in S /\ Len(Front(s)) = Len(s) - 1
         /\ s = Append(Front(s), s[Len(s)])
<1>1. Len(s) \in Nat \ {0} /\ s[Len(s)] \in S
  BY EmptySeq, ElementOfSeq
<1>2. Front(s) \in Seq(S) /\ Len(Front(s)) = Len(s) - 1
  <2> DEFINE n == Len(s) - 1
  <2>1. n \in Int /\ 1 \in Int /\ n \in Nat
    BY <1>1
  <2>0. n = IF 1 <= n THEN n - 1 + 1 ELSE 0
    <3> HIDE DEF n
    <3> QED BY <2>1
  <2>2. \A i \in 1..n : s[i] \in S
    BY <1>1, ElementOfSeq
  <2> HIDE DEF n
  <2>3. SubSeq(s, 1, n) \in Seq(S) /\ Len(SubSeq(s, 1, n)) = n
    BY <2>0, <2>1, <2>2, SubSeqProperties
  <2> QED BY <2>3 DEF Front, n
<1>3. s = Append(Front(s), s[Len(s)])
  BY <1>1 DEF Front
<1> QED BY <1>1, <1>2, <1>3
-----------------------------------------------------------------------------
(* The call stays what it is, and with it all that depends on it alone.     *)
LEMMA JobSame ==
  ASSUME job' = job
  PROVE  /\ Items' = Items /\ Width' = Width /\ IsText' = IsText /\ N' = N /\ Garbled' = Garbled
         /\ Streamed' = Streamed /\ Ranged' = Ranged /\ Stop' = Stop /\ SpanLen' = SpanLen
         /\ MaxElements' = MaxElements /\ ByteLimit' = ByteLimit /\ Cut' = Cut
         /\ Wanted' = Wanted
         /\ \A x : WireLen(x)' = WireLen(x)
         /\ \A k : Place(k)' = Place(k)
         /\ \A k : Plain(k)' = Plain(k)
         /\ \A k : Nth(k)' = Nth(k)
         /\ \A k : SpelledTo(k)' = SpelledTo(k)
         /\ \A a, n : From(a, n)' = From(a, n)
         /\ \A c : Size(c)' = Size(c)
<1>1. Items' = Items /\ Width' = Width /\ IsText' = IsText
  BY DEF Items, Width, IsText
<1>2. N' = N /\ Spelled' = Spelled /\ Garbled' = Garbled
  BY <1>1 DEF N, Spelled, Garbled
<1>3. \A x : WireLen(x)' = WireLen(x)
  BY <1>1 DEF WireLen
<1>4. \A k : Place(k)' = Place(k)
  BY <1>1, <1>3 DEF Place
<1>5. \A k : Plain(k)' = Plain(k)
  BY <1>1 DEF Plain
<1>6. \A k : Nth(k)' = Nth(k)
  BY <1>2 DEF Nth
<1>7. \A k : Element(k)' = Element(k)
  BY <1>1, <1>2, <1>5, <1>6 DEF Element
<1>8. \A a, n : From(a, n)' = From(a, n)
  BY <1>7 DEF From
<1>9. SpanLen' = SpanLen
  BY <1>2, <1>4 DEF SpanLen
<1>10. \A c : Size(c)' = Size(c)
  BY <1>1, <1>2 DEF Size, TextLen
<1>11. Wanted' = Wanted
  BY <1>2, <1>7 DEF Wanted
<1>12. \A k : SpelledTo(k)' = SpelledTo(k)
  BY <1>2 DEF SpelledTo
<1>13. Streamed' = Streamed /\ Ranged' = Ranged
  BY <1>1 DEF Streamed, Ranged
<1>14. Stop' = Stop /\ MaxElements' = MaxElements /\ ByteLimit' = ByteLimit /\ Cut' = Cut
  BY <1>1, <1>2, <1>9, <1>13 DEF Stop, MaxElements, ByteLimit, Cut
<1> QED BY <1>1, <1>2, <1>3, <1>4, <1>5, <1>6, <1>8, <1>9, <1>10, <1>11, <1>12, <1>13, <1>14

LEMMA LimitFacts ==
  ASSUME job \in Jobs
  PROVE  MaxElements \in Nat /\ ByteLimit \in Nat /\ (N > 0 => MaxElements > 0)
BY JobFacts DEF MaxElements, ByteLimit, Largest

LEMMA ChunksSame == ASSUME ChunksBounded, job' = job, chunks' = chunks PROVE ChunksBounded'
<1>1. \A c : Bounded(c)' = Bounded(c)
  BY JobSame DEF Bounded
<1> QED BY <1>1 DEF ChunksBounded

LEMMA ChunkAdded ==
  ASSUME ChunksBounded, job' = job, NEW c, c \in Seq(0..Garbled),
         chunks \in Seq(Seq(0..Garbled)), chunks' = Append(chunks, c), ~Ranged => Bounded(c)
  PROVE  ChunksBounded'
<1>1. \A d : Bounded(d)' = Bounded(d)
  BY JobSame DEF Bounded
<1>2. /\ Len(chunks') = Len(chunks) + 1 /\ Len(chunks) \in Nat
      /\ \A k \in 1..Len(chunks) : chunks'[k] = chunks[k]
      /\ chunks'[Len(chunks) + 1] = c
  BY AppendProperties
<1>3. SUFFICES ASSUME ~Ranged, NEW k \in 1..Len(chunks') PROVE Bounded(chunks'[k])
  BY <1>1 DEF ChunksBounded, Ranged
<1>4. CASE k <= Len(chunks)
  BY <1>2, <1>3, <1>4 DEF ChunksBounded, Ranged
<1>5. CASE k = Len(chunks) + 1
  BY <1>2, <1>3, <1>5
<1>6. k <= Len(chunks) \/ k = Len(chunks) + 1
  BY <1>2, <1>3
<1> QED BY <1>4, <1>5, <1>6

(* Nothing moves but the place where the reader is.                         *)
Quiet == UNCHANGED <<job, pos, buf, bufPos, got, taken, cache, out, bytes, carry, skipped, result, chunks>>

LEMMA QuietStep ==
  ASSUME LazyInv, Quiet, faults' \in 0..Faults,
         \/ pc = "ready" /\ pc' = "taking" /\ IsText /\ taken < N
         \/ pc \in {"ready", "record", "called"} /\ pc' = "failed"
         \/ pc = "ready" /\ pc' = "ended"
         \/ pc = "called" /\ pc' = "ready"
         \/ pc = "failed" /\ pc' = "ready" /\ job.user = "iterator" /\ ~IsText
  PROVE  LazyInv'
<1> USE DEF Quiet
<1>1. Types'
  BY JobSame DEF LazyInv, Types, TypeOK, Ranged, Reading
<1>2. PiecesInv'
  <2>1. Passed' = Passed /\ Useds' = Useds
    BY DEF Passed, Useds, Used
  <2> QED BY <2>1, JobSame DEF LazyInv, Types, TypeOK, PiecesInv, Reading, Ranged
<1>3. StreamInv'
  BY JobSame DEF LazyInv, Types, StreamInv, Reading, Ranged, Streamed
<1>4. ReaderInv'
  <2>1. Unread' = Unread
    BY DEF Unread
  <2> QED BY <2>1, JobSame DEF LazyInv, ReaderInv
<1>5. OutInv'
  <2>1. job \in Jobs /\ IsText => MaxElements \in Nat /\ Size(<<>>) = 0
    BY LimitFacts, SizeNone
  <2>2. Size(out)' = Size(out) /\ IsText' = IsText /\ MaxElements' = MaxElements /\ ByteLimit' = ByteLimit
    BY JobSame
  <2>3. job \in Jobs /\ OutInv
    BY DEF LazyInv, Types, TypeOK
  <2>4. ASSUME pc' = "taking", pc = "ready", IsText PROVE OutInv'
    <3>1. out = <<>> /\ bytes = 0 /\ Len(out) = 0 /\ out' = <<>>
      BY <2>3, <2>4 DEF OutInv
    <3>2. bytes' = Size(out)' /\ Len(out') <= MaxElements'
      BY <2>1, <2>2, <2>3, <2>4, <3>1
    <3> QED BY <2>4, <3>1, <3>2 DEF OutInv
  <2>5. ASSUME pc' # "taking" PROVE OutInv'
    BY <2>2, <2>3, <2>5 DEF OutInv
  <2> QED BY <2>4, <2>5
<1>6. ChunksBounded'
  BY ChunksSame DEF LazyInv
<1> QED BY <1>1, <1>2, <1>3, <1>4, <1>5, <1>6 DEF LazyInv
-----------------------------------------------------------------------------
LEMMA SpanFacts ==
  ASSUME job \in Jobs
  PROVE  /\ SpanLen \in Nat /\ Stop \in Nat
         /\ job.start * Width \in Nat
         /\ Streamed => ~IsText /\ Width > 0 /\ SpanLen = N * Width
         /\ Streamed /\ ~Ranged => Stop = SpanLen
         /\ Streamed /\ Ranged => Stop = job.start * Width + job.count * Width /\ job.count * Width \in Nat
<1>1. N \in Nat /\ Width \in Nat /\ job.start \in Nat /\ job.count \in Nat /\ (~IsText => Width > 0)
  BY JobFacts
<1>2. SpanLen \in Nat
  <2>1. N + 1 \in 1..(N + 1)
    BY <1>1
  <2> QED BY <2>1, PlaceFacts DEF SpanLen
<1>3. job.start * Width \in Nat /\ job.count * Width \in Nat
      /\ (job.start + job.count) * Width = job.start * Width + job.count * Width
  BY <1>1, TimesOn
<1>4. Stop \in Nat
  <2>1. (job.start + job.count) * Width \in Nat
    BY <1>3
  <2> QED BY <1>2, <2>1 DEF Stop
<1>5. Streamed => ~IsText /\ Width > 0 /\ SpanLen = N * Width
  BY <1>1, PlaceCells DEF Streamed
<1> QED BY <1>2, <1>3, <1>4, <1>5 DEF Stop, Ranged

(* What holds before anything is read.                                      *)
Fresh == /\ pc = "open" /\ pos = 0 /\ buf = <<>> /\ bufPos = 0 /\ got = <<>>
         /\ taken = 0 /\ cache = <<>> /\ out = <<>> /\ bytes = 0 /\ carry = <<>>
         /\ skipped = 0 /\ result = <<>> /\ chunks = <<>> /\ faults = 0

LEMMA InitInv == Init => LazyInv
<1> SUFFICES ASSUME Init PROVE LazyInv
  OBVIOUS
<1>1. job \in Jobs /\ Fresh
  BY DEF Init, NewReader, Fresh
<1>2. /\ N \in Nat /\ job.start \in Nat /\ Faults \in Nat
      /\ job.user \in {"iterator", "range", "callback", "file"}
  BY <1>1, JobFacts, LazyAssumption
<1>3. Types
  BY <1>1, <1>2 DEF Types, TypeOK, Fresh, Reading
<1>4. PiecesInv
  <2>1. Passed = 0 /\ Useds = 0 /\ Least(job.start, Passed) = 0
    <3>1. taken = 0 /\ Len(out) = 0
      BY <1>1 DEF Fresh
    <3>2. Passed = 0
      BY <3>1 DEF Passed
    <3> QED BY <1>2, <3>2 DEF Useds, Used, Least
  <2>2. From(0, 0) = <<>> /\ From(job.start, 0) = <<>>
    BY FromFacts
  <2>3. Len(out) = 0 /\ Len(out) <= taken
    BY <1>1 DEF Fresh
  <2> QED BY <1>1, <2>1, <2>2, <2>3, FlattenNone DEF Fresh, PiecesInv, Reading
<1>5. StreamInv
  BY <1>1 DEF Fresh, StreamInv, Reading
<1>6. ReaderInv
  <2>1. SpanLen \in Nat /\ Place(0 + 1) = 0
    BY <1>1, SpanFacts, PlaceFacts
  <2>2. Len(buf) = 0 /\ Len(cache) = 0 /\ Unread = 0
    <3>1. Len(buf) = 0 /\ Len(cache) = 0 /\ pos = 0 /\ bufPos = 0
      BY <1>1 DEF Fresh
    <3> QED BY <3>1 DEF Unread
  <2>3. ReadAt(0, 0) = <<>>
    BY ReadAtFacts
  <2>4. Cardinality(SpelledTo(0)) = 0
    BY <1>1, <1>2, SpelledFacts
  <2> QED BY <1>1, <2>1, <2>2, <2>3, <2>4 DEF Fresh, ReaderInv
<1>7. OutInv
  BY <1>1 DEF Fresh, OutInv
<1>8. ChunksBounded
  BY <1>1 DEF Fresh, ChunksBounded
<1> QED BY <1>3, <1>4, <1>5, <1>6, <1>7, <1>8 DEF LazyInv

LEMMA OpenStep == ASSUME LazyInv, Open PROVE LazyInv'
<1>1. /\ pc = "open" /\ pc' \in {"ready", "ended", "failed"}
      /\ pc' = "ready" /\ Ranged => job.start + job.count <= N /\ job.count > 0
      /\ pos' = IF Streamed THEN job.start * Width ELSE 0
      /\ UNCHANGED <<job, buf, bufPos, got, taken, cache, out, bytes, carry, skipped, result, chunks, faults>>
  <2>1. job \in Jobs
    BY DEF LazyInv, Types, TypeOK
  <2>2. job.start \in Nat /\ job.count \in Nat /\ N \in Nat
    BY <2>1, JobFacts
  <2> QED BY <2>2 DEF Open, Goto, ivars, gvars, Ranged
<1>2. /\ job \in Jobs /\ Types /\ TypeOK
      /\ taken = 0 /\ pos = 0 /\ carry = <<>> /\ chunks = <<>> /\ out = <<>> /\ Len(out) = 0
  BY <1>1 DEF LazyInv, Types, TypeOK
<1>3. /\ N \in Nat /\ Width \in Nat /\ job.start \in Nat /\ job.count \in Nat
      /\ ~Ranged => job.start = 0
      /\ job.start * Width \in Nat /\ SpanLen \in Nat
  BY <1>2, JobFacts, SpanFacts
<1>4. Passed = 0 /\ Passed' = 0 /\ Useds = 0 /\ Useds' = 0
  <2>1. Passed = 0 /\ Passed' = Passed
    <3>1. taken = 0 /\ Len(out) = 0 /\ taken' = taken /\ out' = out
      BY <1>1, <1>2
    <3>2. Passed' = Passed
      BY <3>1 DEF Passed
    <3>3. Passed = 0
      BY <3>1 DEF Passed
    <3> QED BY <3>2, <3>3
  <2> QED BY <1>1, <1>3, <2>1 DEF Useds, Used
<1>5. Types'
  BY <1>1, <1>2, <1>3, JobSame DEF Types, TypeOK, Ranged, Reading
<1>6. PiecesInv'
  BY <1>1, <1>2, <1>4, JobSame DEF LazyInv, PiecesInv, Ranged, Reading
<1>7. StreamInv'
  <2> SUFFICES ASSUME Streamed, pc' = "ready" PROVE StreamInv'
    BY <1>1, JobSame DEF StreamInv, Reading
  <2>1. pos' = job.start * Width /\ carry' = <<>> /\ chunks' = <<>>
    BY <1>1, <1>2
  <2>2. ReadAt(job.start * Width, 0) = <<>>
    BY <1>3, ReadAtFacts
  <2>3. CASE Ranged
    <3>1. pos' \in job.start * Width .. Stop - 1 /\ pos' - job.start * Width = 0
      <4>1. Stop = job.start * Width + job.count * Width /\ job.count * Width \in Nat /\ Width > 0
        BY <1>2, <2>3, SpanFacts
      <4>2. 1 * Width <= job.count * Width /\ 1 * Width = Width
        <5>1. 1 <= job.count /\ 1 \in Nat
          BY <1>1, <1>3, <2>3
        <5> QED BY <1>3, <5>1, TimesOn
      <4> DEFINE x == job.start * Width
                 y == job.count * Width
      <4>3. x \in Nat /\ y \in Nat /\ y > 0 /\ Stop = x + y /\ pos' = x
        BY <1>3, <2>1, <4>1, <4>2
      <4> HIDE DEF x, y
      <4>4. pos' \in x .. Stop - 1 /\ pos' - x = 0
        BY <4>3
      <4> QED BY <4>4 DEF x
    <3> QED BY <1>1, <2>1, <2>2, <2>3, <3>1, JobSame DEF StreamInv
  <2>4. CASE ~Ranged
    <3>1. job.start * Width = 0 /\ 0 * Width = 0 /\ Width > 0
      BY <1>2, <1>3, <2>4, SpanFacts
    <3>2. Len(carry') = 0 /\ pos' = 0
      BY <2>1, <3>1
    <3>3. FlattenSeq(chunks') = From(0, 0) /\ 0 \in 0..N
      BY <1>3, <2>1, FlattenNone, FromFacts
    <3>4. carry' = ReadAt(0 * Width, 0)
      BY <2>1, <2>2, <3>1
    <3>5. /\ FlattenSeq(chunks)' = From(0, 0)'
          /\ Len(carry') < Width' /\ pos' = 0 * Width' + Len(carry') /\ pos' <= SpanLen'
          /\ carry' = ReadAt(0 * Width', Len(carry'))
      BY <1>1, <1>3, <3>1, <3>2, <3>3, <3>4, JobSame
    <3> QED BY <1>1, <2>4, <3>3, <3>5, JobSame DEF StreamInv
  <2> QED BY <2>3, <2>4
<1>8. ReaderInv'
  <2> SUFFICES ASSUME job.lazy, IsText PROVE ReaderInv'
    BY <1>1, JobSame DEF ReaderInv
  <2>1. pos' = pos
    BY <1>1, <1>2 DEF Streamed
  <2>2. Unread' = Unread
    BY <1>1, <2>1 DEF Unread
  <2> QED BY <1>1, <2>1, <2>2, JobSame DEF LazyInv, ReaderInv
<1>9. OutInv'
  BY <1>1, JobSame DEF LazyInv, OutInv
<1>10. ChunksBounded'
  BY <1>1, ChunksSame DEF LazyInv
<1> QED BY <1>5, <1>6, <1>7, <1>8, <1>9, <1>10 DEF LazyInv
-----------------------------------------------------------------------------
(* Fixed width, a chunk at a time.                                          *)
LEMMA TakeFacts ==
  ASSUME job \in Jobs, ~IsText, taken \in 0..N, taken < N
  PROVE  /\ Take \in Nat \ {0} /\ taken + Take <= N
         /\ job.user = "iterator" => Take <= MaxElements
         /\ Take = 1 \/ Take * Width <= ByteLimit
<1> DEFINE q == job.limit \div Width
           byBytes == Largest(q, 1)
<1>1. N \in Nat /\ Width \in Nat /\ Width > 0 /\ job.limit \in Nat /\ job.elements \in Nat \ {0}
  BY JobFacts
<1>2. q \in Nat /\ job.limit % Width \in 0..(Width - 1) /\ job.limit = q * Width + (job.limit % Width)
  BY <1>1, Divided
<1>3. q * Width \in Nat /\ q * Width <= job.limit
  <2>1. q * Width \in Nat
    BY <1>1, <1>2, TimesOn
  <2> HIDE DEF q
  <2> QED BY <1>1, <1>2, <2>1
<1> HIDE DEF q
<1>4. byBytes \in Nat \ {0} /\ (byBytes = 1 \/ byBytes = q)
  BY <1>2 DEF Largest
<1>5. byBytes = 1 \/ byBytes * Width <= job.limit
  BY <1>3, <1>4
<1> HIDE DEF byBytes
<1>6. ChunkElements = IF job.user = "callback" THEN byBytes
                      ELSE IF job.user = "file" THEN 1 ELSE Least(job.elements, byBytes)
  BY DEF ChunkElements, byBytes, q
<1>7. ChunkElements \in Nat \ {0}
  BY <1>1, <1>4, <1>6 DEF Least
<1>8. job.user = "file" \/ ChunkElements <= byBytes
  BY <1>1, <1>4, <1>6 DEF Least
<1>9. job.user = "iterator" => ChunkElements <= MaxElements
  BY <1>1, <1>4, <1>6 DEF Least, MaxElements
<1>10. Take \in Nat \ {0} /\ taken + Take <= N /\ Take <= ChunkElements
  <2>1. N - taken \in Nat \ {0}
    BY <1>1
  <2> QED BY <1>1, <1>7, <2>1 DEF Take, Least
<1>11. job.user = "iterator" => Take <= MaxElements
  <2>1. MaxElements \in Nat
    BY LimitFacts
  <2> QED BY <1>7, <1>9, <1>10, <2>1
<1>12. Take = 1 \/ Take * Width <= ByteLimit
  <2>1. CASE job.user = "file"
    <3>1. ChunkElements = 1
      BY <1>6, <2>1
    <3> QED BY <1>10, <3>1
  <2>2. CASE job.user # "file"
    <3>1. Take <= byBytes
      BY <1>4, <1>7, <1>8, <1>10, <2>2
    <3>2. CASE byBytes = 1
      BY <1>10, <3>1, <3>2
    <3>3. CASE byBytes * Width <= job.limit
      <4>1. Take * Width <= byBytes * Width /\ Take * Width \in Nat /\ byBytes * Width \in Nat
        BY <1>1, <1>4, <1>10, <3>1, TimesOn
      <4>2. job.limit <= ByteLimit /\ ByteLimit \in Nat
        BY <1>1 DEF ByteLimit, Largest
      <4> DEFINE x == Take * Width
                 y == byBytes * Width
      <4> HIDE DEF x, y
      <4>3. x <= ByteLimit
        BY <1>1, <3>3, <4>1, <4>2 DEF x, y
      <4> QED BY <4>3 DEF x
    <3> QED BY <1>5, <3>2, <3>3
  <2> QED BY <2>1, <2>2
<1> QED BY <1>10, <1>11, <1>12

LEMMA FixedStep ==
  ASSUME LazyInv, pc = "ready", ~IsText, ~Streamed, ~Ranged, taken < N,
         Yield(From(taken, Take)), taken' = taken + Take,
         UNCHANGED <<job, rvars, cache, carry, faults>>
  PROVE  LazyInv' /\ taken < taken'
<1> DEFINE c == From(taken, Take)
<1>1. job \in Jobs /\ taken \in 0..N /\ N \in Nat /\ Types /\ TypeOK /\ job.start \in Nat
  <2>1. Types /\ TypeOK /\ job \in Jobs
    BY DEF LazyInv, Types, TypeOK
  <2> QED BY <2>1, JobFacts DEF TypeOK
<1>2. /\ Take \in Nat \ {0} /\ taken + Take <= N
      /\ job.user = "iterator" => Take <= MaxElements
      /\ Take = 1 \/ Take * Width <= ByteLimit
  BY <1>1, TakeFacts
<1>3. /\ chunks' = Append(chunks, c) /\ pc' \in {"called", "ready"}
      /\ pc' = "called" => job.user \in {"callback", "file"}
      /\ out' = <<>> /\ bytes' = 0 /\ UNCHANGED <<skipped, result>>
      /\ UNCHANGED <<job, pos, buf, bufPos, got, cache, carry, faults>>
  BY DEF Yield, Hand, Goto, Ranged, rvars
<1>4. c \in Seq(0..Garbled) /\ Len(c) = Take
  <2>1. \A k \in 1..Take : Element(taken + k) \in 0..Garbled
    <3> SUFFICES ASSUME NEW k \in 1..Take PROVE Element(taken + k) \in 0..Garbled
      OBVIOUS
    <3>1. taken + k \in 1..N /\ taken + k \in 0..Garbled
      BY <1>1, <1>2 DEF Garbled
    <3>2. Element(taken + k) = taken + k
      BY <1>1, <3>1, CellElement
    <3> QED BY <3>1, <3>2
  <2> QED BY <1>2, <2>1, FromFacts, FromType
<1>5. taken' \in 0..N /\ taken < taken'
  BY <1>1, <1>2
<1> HIDE DEF c
<1>6. chunks \in Seq(Seq(0..Garbled)) /\ chunks' \in Seq(Seq(0..Garbled))
  <2>1. chunks \in Seq(Seq(0..Garbled))
    BY <1>1 DEF TypeOK
  <2> QED BY <1>3, <1>4, <2>1, AppendProperties
<1>7. Types'
  BY <1>1, <1>3, <1>5, <1>6, JobSame DEF Types, TypeOK, Ranged
<1>8. PiecesInv'
  <2>1. out = <<>> /\ FlattenSeq(chunks) = From(0, Passed)
    BY DEF LazyInv, PiecesInv, Reading
  <2>2. Len(out) = 0 /\ Len(out') = 0
    BY <1>3, <2>1
  <2>3. Passed = taken /\ Passed' = taken'
    BY <1>1, <1>5, <2>2 DEF Passed
  <2>4. FlattenSeq(chunks') = From(0, taken) \o c
    BY <1>3, <1>4, <1>6, <2>1, <2>3, FlattenMore
  <2>5. From(0, taken) \o c = From(0, taken')
    <3>1. 0 + taken = taken /\ 0 \in Nat /\ taken \in Nat /\ Take \in Nat
      BY <1>1, <1>2
    <3>2. From(0, taken) \o From(0 + taken, Take) = From(0, taken + Take)
      BY <3>1, FromOn, Zenon
    <3> QED BY <3>1, <3>2 DEF c
  <2>6. From(taken', 0) = <<>>
    BY FromFacts
  <2>7. Len(out') <= taken'
    BY <1>1, <1>5, <2>2
  <2> QED BY <1>3, <2>2, <2>3, <2>4, <2>5, <2>6, <2>7, JobSame DEF PiecesInv
<1>9. StreamInv' /\ ReaderInv' /\ OutInv'
  BY <1>3, JobSame DEF StreamInv, ReaderInv, OutInv
<1>10. ChunksBounded'
  <2>1. Bounded(c)
    <3>1. ~Cut
      BY DEF Cut
    <3>2. Size(c) = Take * Width
      BY <1>4 DEF Size
    <3> QED BY <1>2, <1>4, <3>1, <3>2 DEF Bounded
  <2> QED BY <1>3, <1>4, <1>6, <2>1, ChunkAdded DEF LazyInv
<1> QED BY <1>5, <1>7, <1>8, <1>9, <1>10 DEF LazyInv

LEMMA OwnedNextStep == ASSUME LazyInv, OwnedNext PROVE LazyInv' /\ taken < taken'
<1>1. /\ pc = "ready" /\ ~job.lazy /\ ~IsText /\ taken < N /\ taken' = taken + Take
      /\ Yield([k \in 1..Take |-> taken + k])
      /\ UNCHANGED <<job, rvars, cache, carry, faults>>
  BY DEF OwnedNext
<1>2. job \in Jobs /\ taken \in 0..N /\ N \in Nat
  <2>1. job \in Jobs /\ taken \in 0..N
    BY DEF LazyInv, Types, TypeOK
  <2> QED BY <2>1, JobFacts
<1>3. ~Ranged /\ ~Streamed
  BY <1>1, <1>2, JobFacts DEF Streamed
<1>4. Take \in Nat /\ taken + Take <= N
  BY <1>1, <1>2, TakeFacts
<1>5. [k \in 1..Take |-> taken + k] = From(taken, Take)
  <2>1. ASSUME NEW k \in 1..Take PROVE taken + k = Element(taken + k)
    <3>1. taken + k \in 1..N
      BY <1>2, <1>4
    <3> QED BY <1>1, <1>2, <3>1, CellElement
  <2> QED BY <2>1 DEF From
<1> QED BY <1>1, <1>3, <1>5, FixedStep

LEMMA FixedNextStep == ASSUME LazyInv, FixedNext PROVE LazyInv' /\ taken < taken'
<1>1. /\ pc = "ready" /\ job.user = "iterator" /\ ~IsText /\ taken < N /\ taken' = taken + Take
      /\ Yield(Decode(ReadAt(taken * Width, Take * Width)))
      /\ UNCHANGED <<job, rvars, cache, carry, faults>>
  BY DEF FixedNext
<1>2. job \in Jobs /\ taken \in 0..N /\ N \in Nat
  <2>1. job \in Jobs /\ taken \in 0..N
    BY DEF LazyInv, Types, TypeOK
  <2> QED BY <2>1, JobFacts
<1>3. ~Ranged /\ ~Streamed
  BY <1>1 DEF Streamed, Ranged
<1>4. Take \in Nat /\ taken + Take <= N /\ taken \in Nat
  BY <1>1, <1>2, TakeFacts
<1>5. Decode(ReadAt(taken * Width, Take * Width)) = From(taken, Take)
  BY <1>1, <1>2, <1>4, DecodeCells
<1> QED BY <1>1, <1>3, <1>5, FixedStep
-----------------------------------------------------------------------------
(* Fixed width, a stream of bytes.                                          *)

(* A read after whole elements and less than one more: as many elements as  *)
(* are complete, and less than one over.                                    *)
LEMMA Splits ==
  ASSUME job \in Jobs, ~IsText, NEW d \in Nat, NEW m \in Nat, d * Width + m <= N * Width
  PROVE  LET q == m \div Width IN
         /\ q \in Nat /\ m % Width \in Nat /\ m % Width < Width
         /\ q * Width \in Nat /\ m - (m % Width) = q * Width /\ m = q * Width + (m % Width)
         /\ (d + q) * Width = d * Width + q * Width
         /\ d + q \in 0..N
<1> DEFINE q == m \div Width
           r == m % Width
<1>1. N \in Nat /\ Width \in Nat /\ Width > 0
  BY JobFacts
<1>2. q \in Nat /\ r \in 0..(Width - 1) /\ m = q * Width + r /\ m - r = q * Width
  BY <1>1, Divided
<1>3. d * Width \in Nat /\ q * Width \in Nat /\ (d + q) * Width = d * Width + q * Width /\ N * Width \in Nat
  BY <1>1, <1>2, TimesOn
<1>4. (d + q) * Width <= N * Width
  <2> DEFINE x == d * Width
             y == q * Width
             z == N * Width
  <2>1. x \in Nat /\ y \in Nat /\ z \in Nat /\ x + m <= z /\ m = y + r /\ r \in Nat
    BY <1>1, <1>2, <1>3
  <2> HIDE DEF x, y, z, r
  <2>2. x + y <= z
    BY <2>1
  <2> QED BY <1>3, <2>2 DEF x, y, z
<1>5. d + q <= N
  <2>1. (N + 1) * Width = N * Width + 1 * Width /\ 1 * Width = Width
    BY <1>1, TimesOn
  <2>2. (d + q) * Width < (N + 1) * Width
    <3> DEFINE x == (d + q) * Width
               z == N * Width
    <3>1. x \in Nat /\ z \in Nat /\ x <= z /\ (N + 1) * Width = z + Width
      BY <1>1, <1>2, <1>3, <1>4, <2>1, TimesOn
    <3> HIDE DEF x, z
    <3>2. x < z + Width
      BY <1>1, <3>1
    <3> QED BY <3>1, <3>2 DEF x
  <2>3. d + q \in Nat
    BY <1>2
  <2> QED BY <1>1, <2>2, <2>3, TimesOn
<1>6. r \in Nat /\ r < Width /\ d + q \in 0..N
  BY <1>1, <1>2, <1>5
<1> QED BY <1>2, <1>3, <1>6

LEMMA StreamNextFacts ==
  ASSUME LazyInv, StreamNext
  PROVE  /\ job \in Jobs /\ Types /\ TypeOK /\ pc = "ready" /\ Streamed /\ ~IsText
         /\ N \in Nat /\ Width \in Nat /\ Width > 0 /\ pos \in Nat /\ Stop \in Nat /\ ReadSize \in Nat
         /\ UNCHANGED <<job, buf, bufPos, got, taken, cache, out, bytes, skipped, result, faults>>
         /\ \E n \in Nat :
              /\ n <= Stop - pos /\ n <= ReadSize /\ pos + n <= Stop /\ pos' = pos + n
              /\ LET b     == carry \o ReadAt(pos, n)
                     split == IF Ranged /\ pos + n < Stop THEN 0 ELSE Len(b) - (Len(b) % Width)
                 IN /\ carry' = SubSeq(b, split + 1, Len(b))
                    /\ IF split = 0 THEN UNCHANGED <<pc, chunks>>
                       ELSE /\ chunks' = Append(chunks, Decode(SubSeq(b, 1, split)))
                            /\ pc' = IF Ranged THEN "ended" ELSE "called"
<1>1. job \in Jobs /\ Types /\ TypeOK /\ pos \in Nat
  BY DEF LazyInv, Types, TypeOK
<1>2. /\ N \in Nat /\ Width \in Nat /\ Width > 0 /\ Stop \in Nat /\ job.limit \in Nat /\ ~IsText
      /\ Streamed /\ pc = "ready" /\ pos < Stop
  BY <1>1, JobFacts, SpanFacts DEF StreamNext
<1>3. ReadSize \in Nat
  BY <1>2 DEF ReadSize, Largest
<1>4. Stop - pos \in Nat
  BY <1>1, <1>2
<1> DEFINE n == Least(Stop - pos, ReadSize)
<1>5. n \in Nat /\ n <= Stop - pos /\ n <= ReadSize
  BY <1>3, <1>4, Smaller
<1>6. pos + n <= Stop
  <2> HIDE DEF n
  <2> QED BY <1>1, <1>2, <1>5
<1>7. UNCHANGED <<job, buf, bufPos, got, taken, cache, out, bytes, skipped, result, faults>>
  BY DEF StreamNext, ivars
<1>8. /\ pos' = pos + n
      /\ LET b     == carry \o ReadAt(pos, n)
             split == IF Ranged /\ pos + n < Stop THEN 0 ELSE Len(b) - (Len(b) % Width)
         IN /\ carry' = SubSeq(b, split + 1, Len(b))
            /\ IF split = 0 THEN UNCHANGED <<pc, chunks>>
               ELSE /\ chunks' = Append(chunks, Decode(SubSeq(b, 1, split)))
                    /\ pc' = IF Ranged THEN "ended" ELSE "called"
  BY DEF StreamNext, Goto, Ranged
<1> HIDE DEF n
<1> QED BY <1>1, <1>2, <1>3, <1>5, <1>6, <1>7, <1>8

(* A range: nothing is decoded before all its bytes are there.              *)
LEMMA StreamRangeStep ==
  ASSUME LazyInv, StreamNext, Ranged
  PROVE  /\ LazyInv' /\ chunks = <<>>
         /\ \/ pc' = pc /\ chunks' = chunks
            \/ pc' = "ended" /\ chunks' = <<From(job.start, job.count)>>
<1>1. /\ job \in Jobs /\ Types /\ TypeOK /\ pc = "ready" /\ Streamed /\ ~IsText
      /\ N \in Nat /\ Width \in Nat /\ Width > 0 /\ pos \in Nat /\ Stop \in Nat
      /\ UNCHANGED <<job, buf, bufPos, got, taken, cache, out, bytes, skipped, result, faults>>
  BY StreamNextFacts
<1>2. PICK n \in Nat :
        /\ pos + n <= Stop /\ pos' = pos + n
        /\ LET b     == carry \o ReadAt(pos, n)
               split == IF Ranged /\ pos + n < Stop THEN 0 ELSE Len(b) - (Len(b) % Width)
           IN /\ carry' = SubSeq(b, split + 1, Len(b))
              /\ IF split = 0 THEN UNCHANGED <<pc, chunks>>
                 ELSE /\ chunks' = Append(chunks, Decode(SubSeq(b, 1, split)))
                      /\ pc' = IF Ranged THEN "ended" ELSE "called"
  BY StreamNextFacts
<1> DEFINE p == job.start * Width
           all == job.count * Width
           b == carry \o ReadAt(pos, n)
<1>3. /\ job.start \in Nat /\ job.count \in Nat /\ p \in Nat /\ all \in Nat /\ Stop = p + all
      /\ job.start + job.count <= N /\ job.count > 0
  <2>1. job.start + job.count <= N /\ job.count > 0
    BY <1>1 DEF Types, Reading
  <2> QED BY <1>1, <2>1, JobFacts, SpanFacts
<1>4. chunks = <<>> /\ pos \in p .. Stop - 1 /\ carry = ReadAt(p, pos - p)
  BY <1>1 DEF LazyInv, StreamInv, Reading
<1> HIDE DEF p, all
<1>5. b = ReadAt(p, (pos - p) + n) /\ Len(b) = (pos - p) + n /\ (pos - p) + n \in Nat
  <2>1. pos - p \in Nat /\ p + (pos - p) = pos
    BY <1>1, <1>3, <1>4
  <2>2. ReadAt(p, pos - p) \o ReadAt(p + (pos - p), n) = ReadAt(p, (pos - p) + n)
    <3>1. p \in Nat /\ pos - p \in Nat /\ n \in Nat
      BY <1>3, <2>1
    <3> QED BY <3>1, ReadAtOn, Zenon
  <2>3. (pos - p) + n \in Nat
    BY <2>1
  <2>4. b = ReadAt(p, (pos - p) + n)
    BY <1>4, <2>1, <2>2
  <2> HIDE DEF b
  <2>5. Len(ReadAt(p, (pos - p) + n)) = (pos - p) + n
    BY <1>3, <2>3, ReadAtFacts
  <2> QED BY <2>3, <2>4, <2>5
<1> HIDE DEF b
<1>6. PiecesInv' /\ ReaderInv' /\ OutInv'
  BY <1>1, JobSame DEF PiecesInv, ReaderInv, OutInv
<1>7. CASE pos + n < Stop
  <2>1. UNCHANGED <<pc, chunks>> /\ carry' = SubSeq(b, 0 + 1, Len(b))
    BY <1>2, <1>7 DEF b
  <2>2. carry' = b
    <3>1. b \in Seq(Nat)
      BY <1>3, <1>5, ReadAtFacts
    <3>2. SubSeq(b, 1, Len(b)) = b
      BY <3>1
    <3> QED BY <2>1, <3>2
  <2>3. pos' \in p .. Stop - 1 /\ pos' - p = (pos - p) + n /\ pos' \in Nat
    BY <1>1, <1>2, <1>3, <1>4, <1>7
  <2>4. carry' = ReadAt(p, pos' - p) /\ carry' \in Seq(Nat)
    BY <1>3, <1>5, <2>2, <2>3, ReadAtFacts
  <2>5. Types'
    BY <1>1, <2>1, <2>3, <2>4, JobSame DEF Types, TypeOK, Ranged, Reading
  <2>6. StreamInv'
    BY <1>1, <1>4, <2>1, <2>3, <2>4, JobSame DEF StreamInv, Ranged, p
  <2>7. ChunksBounded'
    BY <1>1, <2>1, ChunksSame DEF LazyInv
  <2> QED BY <1>4, <1>6, <2>1, <2>5, <2>6, <2>7 DEF LazyInv
<1>8. CASE pos + n = Stop
  <2>1. Len(b) = all /\ all % Width = 0 /\ all > 0
    <3>1. Len(b) = all
      BY <1>1, <1>3, <1>4, <1>5, <1>8
    <3>2. all % Width = 0
      <4>1. (job.count * Width + 0) % Width = 0
        BY <1>1, <1>3, DivideTimes
      <4>2. all + 0 = all
        BY <1>3
      <4> QED BY <4>1, <4>2 DEF all
    <3>3. Width <= all
      <4>1. 1 <= job.count /\ 1 \in Nat /\ 1 * Width = Width
        BY <1>1, <1>3
      <4> QED BY <1>1, <1>3, <4>1, TimesOn DEF all
    <3> QED BY <1>1, <1>3, <3>1, <3>2, <3>3
  <2>2. /\ carry' = SubSeq(b, all + 1, Len(b))
        /\ chunks' = Append(chunks, Decode(SubSeq(b, 1, all))) /\ pc' = "ended"
    <3>1. ~(pos + n < Stop) /\ Len(b) - (Len(b) % Width) = all /\ all # 0
      BY <1>1, <1>3, <1>8, <2>1
    <3> QED BY <1>2, <3>1 DEF b
  <2>3. Decode(SubSeq(b, 1, all)) = From(job.start, job.count)
    <3>1. SubSeq(b, 1, all) = b
      <4>1. b \in Seq(Nat)
        BY <1>3, <1>5, ReadAtFacts
      <4> QED BY <2>1, <4>1
    <3>2. b = ReadAt(p, all)
      BY <1>5, <2>1
    <3> QED BY <1>1, <1>3, <3>1, <3>2, DecodeCells DEF p, all
  <2> DEFINE c == From(job.start, job.count)
  <2>4. c \in Seq(0..Garbled)
    <3>1. \A k \in 1..job.count : Element(job.start + k) \in 0..Garbled
      <4> SUFFICES ASSUME NEW k \in 1..job.count PROVE Element(job.start + k) \in 0..Garbled
        OBVIOUS
      <4>1. job.start + k \in 1..N /\ job.start + k \in 0..Garbled
        BY <1>1, <1>3 DEF Garbled
      <4>2. Element(job.start + k) = job.start + k
        BY <1>1, <4>1, CellElement
      <4> QED BY <4>1, <4>2
    <3> QED BY <1>3, <3>1, FromType
  <2> HIDE DEF c
  <2>5. chunks' = Append(chunks, c) /\ chunks' = <<c>>
    BY <1>4, <2>2, <2>3 DEF c
  <2>6. carry' = <<>> /\ pos' \in Nat
    <3>1. b \in Seq(Nat)
      BY <1>3, <1>5, ReadAtFacts
    <3>2. all + 1 \in Int /\ Len(b) \in Int /\ Len(b) < all + 1
      BY <1>3, <2>1
    <3>3. SubSeq(b, all + 1, Len(b)) = <<>>
      BY <3>2, SubSeqEmpty
    <3>4. carry' = <<>>
      BY <2>2, <3>3
    <3>5. pos' = pos + n
      BY <1>2
    <3>6. pos' \in Nat
      BY <1>1, <3>5
    <3> QED BY <3>4, <3>6
  <2>7. chunks' \in Seq(Seq(0..Garbled)) /\ chunks \in Seq(Seq(0..Garbled))
    BY <1>1, <2>4, <2>5, AppendProperties DEF TypeOK
  <2>8. Types'
    <3>1. carry' \in Seq(Nat)
      BY <2>6, EmptySeq
    <3> QED BY <1>1, <2>2, <2>6, <2>7, <3>1, JobSame DEF Types, TypeOK, Ranged, Reading
  <2>9. StreamInv'
    BY <2>2 DEF StreamInv, Reading
  <2>10. ChunksBounded'
    BY <1>1, <2>4, <2>5, <2>7, ChunkAdded DEF LazyInv
  <2> QED BY <1>4, <1>6, <2>2, <2>5, <2>8, <2>9, <2>10 DEF LazyInv, c
<1>9. pos + n < Stop \/ pos + n = Stop
  BY <1>1, <1>2
<1> QED BY <1>7, <1>8, <1>9

(* A callback or a file: whole elements are handed over as they come.       *)
LEMMA StreamCallStep ==
  ASSUME LazyInv, StreamNext, ~Ranged
  PROVE  /\ LazyInv'
         /\ \E d \in 0..N, e \in 0..N :
              /\ d <= e /\ FlattenSeq(chunks) = From(0, d) /\ FlattenSeq(chunks') = From(0, e)
         /\ pc' \in {"ready", "called"}
<1>1. /\ job \in Jobs /\ Types /\ TypeOK /\ pc = "ready" /\ Streamed /\ ~IsText
      /\ N \in Nat /\ Width \in Nat /\ Width > 0 /\ pos \in Nat /\ Stop \in Nat /\ ReadSize \in Nat
      /\ UNCHANGED <<job, buf, bufPos, got, taken, cache, out, bytes, skipped, result, faults>>
  BY StreamNextFacts
<1>2. PICK n \in Nat :
        /\ n <= ReadSize /\ pos + n <= Stop /\ pos' = pos + n
        /\ LET b     == carry \o ReadAt(pos, n)
               split == IF Ranged /\ pos + n < Stop THEN 0 ELSE Len(b) - (Len(b) % Width)
           IN /\ carry' = SubSeq(b, split + 1, Len(b))
              /\ IF split = 0 THEN UNCHANGED <<pc, chunks>>
                 ELSE /\ chunks' = Append(chunks, Decode(SubSeq(b, 1, split)))
                      /\ pc' = IF Ranged THEN "ended" ELSE "called"
  BY StreamNextFacts
<1>3. SpanLen = N * Width /\ Stop = SpanLen /\ SpanLen \in Nat
  BY <1>1, SpanFacts
<1>4. PICK d \in 0..N :
        /\ FlattenSeq(chunks) = From(0, d)
        /\ Len(carry) < Width /\ pos = d * Width + Len(carry) /\ pos <= SpanLen
        /\ carry = ReadAt(d * Width, Len(carry))
  BY <1>1 DEF LazyInv, StreamInv, Reading
<1> DEFINE p == d * Width
           m == Len(carry) + n
           b == carry \o ReadAt(pos, n)
           q == m \div Width
           r == m % Width
           c == From(d, q)
<1>5. p \in Nat /\ Len(carry) \in Nat /\ m \in Nat /\ p + m <= N * Width /\ pos + n = p + m
  <2>1. p \in Nat
    BY <1>1, TimesOn
  <2>2. Len(carry) \in Nat
    BY <1>1 DEF TypeOK
  <2> HIDE DEF p
  <2> QED BY <1>1, <1>2, <1>3, <1>4, <2>1, <2>2 DEF p
<1>6. b = ReadAt(p, m) /\ Len(b) = m /\ b \in Seq(Nat)
  <2>1. carry = ReadAt(p, Len(carry)) /\ pos = p + Len(carry)
    BY <1>4
  <2>2. ReadAt(p, Len(carry)) \o ReadAt(p + Len(carry), n) = ReadAt(p, Len(carry) + n)
    <3>1. p \in Nat /\ Len(carry) \in Nat /\ n \in Nat
      BY <1>5
    <3> QED BY <3>1, ReadAtOn, Zenon
  <2>3. b = ReadAt(p, m)
    BY <2>1, <2>2
  <2>4. Len(ReadAt(p, m)) = m /\ ReadAt(p, m) \in Seq(Nat)
    BY <1>5, ReadAtFacts
  <2> HIDE DEF b, m, p
  <2> QED BY <2>3, <2>4
<1>7. /\ q \in Nat /\ r \in Nat /\ r < Width
      /\ q * Width \in Nat /\ m - r = q * Width /\ m = q * Width + r
      /\ (d + q) * Width = p + q * Width /\ d + q \in 0..N
  <2>1. d \in Nat
    BY <1>1
  <2> HIDE DEF m
  <2> QED BY <1>1, <1>5, <2>1, Splits
<1> DEFINE qw == q * Width
<1>8. /\ carry' = SubSeq(b, qw + 1, m)
      /\ IF qw = 0 THEN UNCHANGED <<pc, chunks>>
         ELSE chunks' = Append(chunks, Decode(SubSeq(b, 1, qw))) /\ pc' = "called"
  <2>1. Len(b) - (Len(b) % Width) = qw
    BY <1>6, <1>7
  <2> HIDE DEF qw, m, q
  <2> QED BY <1>2, <1>6, <2>1
<1> HIDE DEF b, m, q, r, qw, p
<1>9. carry' = ReadAt(p + qw, r) /\ Len(carry') = r /\ carry' \in Seq(Nat)
  <2>1. qw \in Nat /\ qw + r = m /\ qw + r <= m
    BY <1>5, <1>7 DEF qw
  <2>2. SubSeq(ReadAt(p, m), qw + 1, qw + r) = ReadAt(p + qw, r)
    <3>1. p \in Nat /\ m \in Nat /\ qw \in Nat /\ r \in 0..(m - qw)
      BY <1>5, <1>7, <2>1
    <3> QED BY <3>1, ReadAtPart, Zenon
  <2>3. carry' = ReadAt(p + qw, r)
    BY <1>6, <1>8, <2>1, <2>2
  <2>4. p + qw \in Nat
    BY <1>5, <2>1
  <2> QED BY <1>7, <2>3, <2>4, ReadAtFacts
<1>10. /\ p + qw = (d + q) * Width /\ pos' = (d + q) * Width + r /\ pos' \in Nat /\ pos' <= SpanLen
       /\ qw \in Nat
  <2>1. qw \in Nat /\ p + qw = (d + q) * Width /\ m = qw + r
    BY <1>7 DEF qw
  <2>2. pos' = p + m
    BY <1>2, <1>5
  <2> DEFINE z == (d + q) * Width
  <2>3. z = p + qw
    BY <2>1
  <2> HIDE DEF z
  <2>4. pos' = z + r /\ pos' \in Nat /\ pos' <= SpanLen
    <3>1. pos' = pos + n /\ pos + n <= SpanLen /\ p \in Nat /\ m \in Nat /\ r \in Nat
      BY <1>2, <1>3, <1>5, <1>7
    <3>2. pos' = p + m /\ m = qw + r /\ z = p + qw /\ qw \in Nat
      BY <2>1, <2>2, <2>3
    <3>3. pos' = z + r /\ pos' \in Nat
      BY <3>1, <3>2
    <3> QED BY <3>1, <3>3
  <2> QED BY <2>1, <2>4 DEF z
<1>11. c \in Seq(0..Garbled) /\ Len(c) = q
  <2>1. \A k \in 1..q : Element(d + k) \in 0..Garbled
    <3> SUFFICES ASSUME NEW k \in 1..q PROVE Element(d + k) \in 0..Garbled
      OBVIOUS
    <3>1. d + k \in 1..N /\ d + k \in 0..Garbled
      BY <1>1, <1>7 DEF Garbled
    <3>2. Element(d + k) = d + k
      BY <1>1, <3>1, CellElement
    <3> QED BY <3>1, <3>2
  <2> QED BY <1>7, <2>1, FromFacts, FromType
<1>12. chunks \in Seq(Seq(0..Garbled))
  BY <1>1 DEF TypeOK
<1>13. qw # 0 => chunks' = Append(chunks, c)
  <2>1. SubSeq(b, 1, qw) = ReadAt(d * Width, qw)
    <3>1. /\ p \in Nat /\ m \in Nat /\ 0 \in Nat /\ qw \in 0..(m - 0)
          /\ p + 0 = p /\ 0 + qw = qw /\ 0 + 1 = 1
      BY <1>5, <1>7, <1>10 DEF qw
    <3>2. SubSeq(ReadAt(p, m), 0 + 1, 0 + qw) = ReadAt(p + 0, qw)
      BY <3>1, ReadAtPart, Zenon
    <3>3. SubSeq(ReadAt(p, m), 1, qw) = ReadAt(p, qw)
      BY <3>1, <3>2
    <3> QED BY <1>6, <3>3 DEF p
  <2>2. Decode(ReadAt(d * Width, q * Width)) = From(d, q)
    <3>1. d \in Nat /\ d + q <= N
      BY <1>1, <1>7
    <3> QED BY <1>1, <1>7, <3>1, DecodeCells
  <2> QED BY <1>8, <2>1, <2>2 DEF qw
<1>14. /\ pc' = IF qw = 0 THEN "ready" ELSE "called"
       /\ pc' \in {"ready", "called"}
       /\ FlattenSeq(chunks') = From(0, d + q)
       /\ chunks' \in Seq(Seq(0..Garbled))
  <2>1. CASE qw = 0
    <3>1. q = 0
      <4>1. q = 0 \/ 1 <= q
        BY <1>7
      <4>2. 1 <= q => 1 * Width <= q * Width /\ 1 * Width = Width
        <5>1. 1 \in Nat
          OBVIOUS
        <5> QED BY <1>1, <1>7, <5>1, TimesOn
      <4> QED BY <1>1, <2>1, <4>1, <4>2 DEF qw
    <3>2. d + q = d
      BY <3>1
    <3> QED BY <1>1, <1>4, <1>8, <1>12, <2>1, <3>2
  <2>2. CASE qw # 0
    <3>1. FlattenSeq(chunks') = From(0, d) \o c
      BY <1>4, <1>11, <1>12, <1>13, <2>2, FlattenMore
    <3>2. From(0, d) \o From(0 + d, q) = From(0, d + q) /\ 0 + d = d
      <4>1. 0 \in Nat /\ d \in Nat /\ 0 + d = d /\ q \in Nat
        BY <1>7
      <4> QED BY <4>1, FromOn, Zenon
    <3>3. chunks' \in Seq(Seq(0..Garbled))
      <4>1. chunks' = Append(chunks, c) /\ c \in Seq(0..Garbled)
        BY <1>11, <1>13, <2>2
      <4> HIDE DEF c
      <4> QED BY <1>12, <4>1, AppendProperties
    <3> QED BY <1>8, <2>2, <3>1, <3>2, <3>3
  <2> QED BY <2>1, <2>2
<1>15. job.user \in {"callback", "file"}
  BY <1>1, JobFacts DEF Streamed, Ranged
<1> HIDE DEF c
<1>16. Types'
  BY <1>1, <1>9, <1>10, <1>14, <1>15, JobSame DEF Types, TypeOK, Ranged, Reading
<1>17. PiecesInv' /\ ReaderInv' /\ OutInv'
  BY <1>1, JobSame DEF PiecesInv, ReaderInv, OutInv
<1>18. StreamInv'
  <2> DEFINE e == d + q
  <2>1. /\ e \in 0..N /\ FlattenSeq(chunks') = From(0, e) /\ Len(carry') < Width
        /\ pos' = e * Width + Len(carry') /\ pos' <= SpanLen /\ carry' = ReadAt(e * Width, Len(carry'))
    BY <1>7, <1>9, <1>10, <1>14
  <2> HIDE DEF e
  <2> QED BY <1>1, <2>1, JobSame DEF StreamInv
<1>19. ChunksBounded'
  <2>1. CASE qw = 0
    BY <1>1, <1>8, <2>1, ChunksSame DEF LazyInv
  <2>2. CASE qw # 0
    <3>1. Bounded(c)
      <4> SUFFICES ASSUME q # 1 PROVE Size(Front(c)) <= ByteLimit
        BY <1>1, <1>11, <1>15 DEF Bounded, Cut, Streamed
      <4>1. q # 0
        <5>1. 0 * Width = 0
          BY <1>1
        <5> QED BY <2>2, <5>1 DEF qw
      <4>2. q - 1 \in Nat \ {0} /\ (q - 1) + 1 = q
        BY <1>7, <4>1
      <4> DEFINE x == (q - 1) * Width
      <4>3. x \in Nat /\ x + Width = qw /\ Width <= x
        <5>1. x \in Nat /\ ((q - 1) + 1) * Width = x + 1 * Width /\ 1 * Width = Width
          BY <1>1, <4>2, TimesOn
        <5>2. 1 * Width <= x
          <6>1. 1 \in Nat /\ 1 <= q - 1
            BY <4>2
          <6> QED BY <1>1, <4>2, <6>1, TimesOn
        <5> QED BY <4>2, <5>1, <5>2 DEF qw
      <4>4. Size(Front(c)) = x
        <5>1. c # <<>>
          BY <1>11, <4>1
        <5>2. Len(Front(c)) = q - 1
          BY <1>11, <5>1, FrontLast
        <5> QED BY <1>1, <5>2 DEF Size
      <4>5. x < n
        <5>1. qw <= m /\ m = Len(carry) + n /\ Len(carry) < Width /\ Len(carry) \in Nat
          BY <1>4, <1>5, <1>7, <1>10 DEF qw, m
        <5> HIDE DEF x
        <5> QED BY <1>1, <1>10, <4>3, <5>1
      <4>6. x <= ByteLimit
        <5>1. job.limit \in Nat
          BY <1>1, JobFacts
        <5>2. CASE job.user = "file"
          <6>1. ReadSize = job.limit /\ ByteLimit = job.limit
            BY <5>2 DEF ReadSize, ByteLimit
          <6> HIDE DEF x
          <6> QED BY <1>2, <4>3, <4>5, <5>1, <6>1
        <5>3. CASE job.user = "callback"
          <6>1. ReadSize = Largest(job.limit, Width) /\ ByteLimit = Largest(job.limit, 1)
            BY <5>3 DEF ReadSize, ByteLimit
          <6>2. ReadSize = job.limit \/ ReadSize = Width
            BY <6>1 DEF Largest
          <6>3. job.limit <= ByteLimit /\ ByteLimit \in Nat
            BY <5>1, <6>1 DEF Largest
          <6> HIDE DEF x
          <6> QED BY <1>1, <1>2, <4>3, <4>5, <5>1, <6>2, <6>3
        <5> QED BY <1>15, <5>2, <5>3
      <4> QED BY <4>4, <4>6
    <3> QED BY <1>1, <1>11, <1>12, <1>13, <2>2, <3>1, ChunkAdded DEF LazyInv
  <2> QED BY <2>1, <2>2
<1>20. LazyInv'
  BY <1>16, <1>17, <1>18, <1>19 DEF LazyInv
<1>21. d + q \in 0..N /\ d <= d + q
  BY <1>7
<1> QED BY <1>4, <1>14, <1>20, <1>21
-----------------------------------------------------------------------------
(* A range of strings: of what leaves the reader, what was asked for is     *)
(* gathered.                                                                *)
LEMMA Gathering ==
  ASSUME NEW m \in Nat, job.start \in Nat, job.count \in Nat, Passed \in Nat,
         skipped = Least(job.start, Passed), Useds < job.count, result = From(job.start, Useds)
  PROVE  /\ result \o Useful(From(Passed, m)) = From(job.start, Least(job.count, Used(Passed + m)))
         /\ SkippedAfter(From(Passed, m)) = Least(job.start, Passed + m)
<1> DEFINE start == job.start
           count == job.count
           y == Passed
           u == IF y <= start THEN 0 ELSE y - start
           v == IF y + m <= start THEN 0 ELSE y + m - start
           w == Least(count, v)
           c == From(y, m)
<1>0. /\ start \in Nat /\ count \in Nat /\ y \in Nat /\ job.start = start /\ job.count = count
      /\ skipped = Least(start, y) /\ u < count /\ result = From(start, u)
      /\ v = Used(y + m)
  BY DEF Useds, Used
<1> SUFFICES result \o Useful(c) = From(start, w) /\ SkippedAfter(c) = Least(start, y + m)
  BY <1>0
<1> HIDE DEF start, count, y
<1>1. u \in Nat /\ v \in Nat /\ w \in Nat /\ u < count /\ result = From(start, u)
  BY <1>0 DEF Least
<1>2. Len(c) = m /\ Len(result) = u
  BY <1>0, <1>1, FromFacts
<1>3. skipped = IF start < y THEN start ELSE y
  BY <1>0 DEF Least
<1> HIDE DEF u, v, w, c
<1>4. SkippedAfter(c) = Least(start, y + m)
  BY <1>0, <1>2, <1>3 DEF SkippedAfter, Least
(* What is wanted of a chunk, from its i-th element on.                     *)
<1>5. ASSUME NEW i \in 0..m
      PROVE  Wanting(c, i) = From(y + i, Least(m - i, count - u))
  <2> DEFINE l == Least(m - i, count - u)
  <2>1. m - i \in Nat /\ count - u \in Nat /\ i \in Nat
    BY <1>0, <1>1
  <2>2. l \in Nat /\ i + l <= m
    <3>1. l \in Nat /\ l <= m - i
      BY <1>0, <2>1, Smaller
    <3> HIDE DEF l
    <3> QED BY <1>0, <2>1, <3>1
  <2>3. Wanting(c, i) = SubSeq(c, i + 1, i + l)
    BY <1>0, <1>2 DEF Wanting
  <2> HIDE DEF l
  <2>4. SubSeq(From(y, m), i + 1, i + l) = From(y + i, l)
    <3>1. i \in Nat /\ l \in 0..(m - i)
      BY <1>0, <2>1, <2>2
    <3>2. \A j \in Nat : \A k \in 0..(m - j) : SubSeq(From(y, m), j + 1, j + k) = From(y + j, k)
      BY <1>0, FromPart
    <3> QED BY <3>1, <3>2
  <2> QED BY <1>0, <2>3, <2>4 DEF c, l
<1>6. CASE y >= start
  <2>1. skipped >= start /\ u = y - start /\ start + u = y /\ v = u + m
    BY <1>0, <1>3, <1>6 DEF u, v
  <2>2. Useful(c) = From(y, Least(m, count - u))
    <3>1. 0 \in 0..m /\ y + 0 = y /\ m - 0 = m
      BY <1>0
    <3>2. Wanting(c, 0) = From(y, Least(m, count - u))
      BY <1>0, <1>5, <3>1
    <3> QED BY <1>0, <2>1, <3>2 DEF Useful
  <2>3. Least(m, count - u) \in Nat /\ u + Least(m, count - u) = w
    BY <1>0, <1>1, <2>1 DEF Least, w
  <2>4. From(start, u) \o From(start + u, Least(m, count - u)) = From(start, u + Least(m, count - u))
    <3> DEFINE l == Least(m, count - u)
    <3>1. start \in Nat /\ u \in Nat /\ l \in Nat
      BY <1>0, <1>1, <2>3
    <3> HIDE DEF l
    <3>2. From(start, u) \o From(start + u, l) = From(start, u + l)
      BY <3>1, FromOn, Zenon
    <3> QED BY <1>0, <3>2 DEF l
  <2> QED BY <1>0, <1>1, <1>4, <2>1, <2>2, <2>3, <2>4 DEF c, v, w
<1>7. CASE y < start /\ y + m <= start
  <2>1. ~(skipped >= start) /\ skipped + m <= start /\ u = 0 /\ v = 0 /\ w = 0
    BY <1>0, <1>3, <1>7 DEF u, v, w, Least
  <2>2. Useful(c) = <<>>
    BY <1>0, <1>2, <2>1 DEF Useful
  <2>3. From(start, 0) = <<>>
    BY FromFacts
  <2>4. <<>> \o <<>> = <<>>
    OBVIOUS
  <2> QED BY <1>0, <1>1, <1>4, <2>1, <2>2, <2>3, <2>4 DEF c, v, w
<1>8. CASE y < start /\ ~(y + m <= start)
  <2> DEFINE i == start - y
  <2>1. ~(skipped >= start) /\ ~(skipped + m <= start) /\ skipped = y /\ u = 0
    BY <1>0, <1>3, <1>8 DEF u
  <2>2. i \in 0..m /\ y + i = start /\ v = m - i /\ count - u = count
    BY <1>0, <1>8, <2>1 DEF v
  <2>3. Useful(c) = Wanting(c, i)
    BY <1>0, <1>2, <2>1 DEF Useful
  <2>4. Wanting(c, i) = From(y + i, Least(m - i, count - u))
    <3> HIDE DEF i
    <3> QED BY <1>0, <1>5, <2>2
  <2>5. Least(m - i, count - u) = w
    <3> HIDE DEF i
    <3>1. m - i = v /\ count - u = count
      BY <1>0, <2>2
    <3>2. Least(v, count) = Least(count, v)
      BY <1>0, <1>1 DEF Least
    <3> QED BY <1>0, <3>1, <3>2 DEF w
  <2>6. From(start, 0) = <<>>
    BY FromFacts
  <2>7. <<>> \o From(start, w) = From(start, w)
    <3>1. 0 \in Nat /\ start \in Nat /\ w \in Nat
      BY <1>0, <1>1
    <3>2. From(start, 0) \o From(start + 0, w) = From(start, 0 + w)
      BY <3>1, FromOn, Zenon
    <3>3. start + 0 = start /\ 0 + w = w
      BY <3>1
    <3> QED BY <2>6, <3>2, <3>3
  <2> HIDE DEF i
  <2> QED BY <1>0, <1>1, <1>4, <2>1, <2>2, <2>3, <2>4, <2>5, <2>6, <2>7 DEF c, v, w
<1>9. y >= start \/ (y < start /\ y + m <= start) \/ (y < start /\ ~(y + m <= start))
  BY <1>0
<1> QED BY <1>6, <1>7, <1>8, <1>9


LEMMA UsefulType ==
  ASSUME NEW S, NEW c \in Seq(S), job.start \in Nat, job.count \in Nat, skipped \in Nat,
         Len(result) \in Nat, Len(result) < job.count
  PROVE  Useful(c) \in Seq(S) /\ SkippedAfter(c) \in Nat
<1>0. Len(c) \in Nat
  OBVIOUS
<1>1. ASSUME NEW i \in 0..Len(c) PROVE Wanting(c, i) \in Seq(S)
  <2> DEFINE l == Least(Len(c) - i, job.count - Len(result))
  <2>1. l \in Nat /\ l <= Len(c) - i
    <3>1. Len(c) - i \in Nat /\ job.count - Len(result) \in Nat
      BY <1>0
    <3> QED BY <3>1, Smaller
  <2> HIDE DEF l
  <2>2. i + 1 \in Int /\ i + l \in Int /\ i + l <= Len(c)
    BY <1>0, <2>1
  <2>3. \A k \in (i + 1)..(i + l) : c[k] \in S
    <3> SUFFICES ASSUME NEW k \in (i + 1)..(i + l) PROVE c[k] \in S
      OBVIOUS
    <3>1. k \in 1..Len(c)
      BY <1>0, <2>2
    <3> QED BY <3>1, ElementOfSeq
  <2>4. SubSeq(c, i + 1, i + l) \in Seq(S)
    BY <2>2, <2>3, SubSeqProperties
  <2> QED BY <2>4 DEF Wanting, l
<1>2. Useful(c) \in Seq(S)
  <2>1. CASE skipped >= job.start
    <3>1. 0 \in 0..Len(c)
      BY <1>0
    <3> QED BY <1>1, <2>1, <3>1 DEF Useful
  <2>2. CASE ~(skipped >= job.start) /\ skipped + Len(c) <= job.start
    <3>1. Useful(c) = <<>>
      BY <2>2 DEF Useful
    <3> QED BY <3>1, EmptySeq
  <2>3. CASE ~(skipped >= job.start) /\ ~(skipped + Len(c) <= job.start)
    <3>1. job.start - skipped \in 0..Len(c)
      BY <1>0, <2>3
    <3> QED BY <1>1, <2>3, <3>1 DEF Useful
  <2> QED BY <2>1, <2>2, <2>3
<1>3. SkippedAfter(c) \in Nat
  BY <1>0 DEF SkippedAfter, Least
<1> QED BY <1>2, <1>3

(* What holds of the strings whenever the reader has not moved.             *)
TextInv == Types /\ PiecesInv /\ StreamInv /\ OutInv /\ ChunksBounded

(* What the caller hears of a step: nothing, or the next elements, or, of a *)
(* range, all of them and the end.                                          *)
Heard ==
  \/ /\ ~Ranged /\ pc' \in {"ready", "taking", "record", "called"}
     /\ \E d \in 0..N, e \in 0..N :
          d <= e /\ FlattenSeq(chunks) = From(0, d) /\ FlattenSeq(chunks') = From(0, e)
  \/ Ranged /\ chunks' = chunks /\ pc' \in {"ready", "taking", "record"}
  \/ /\ Ranged /\ chunks = <<>> /\ chunks' = <<From(job.start, job.count)>> /\ pc' = "ended"
     /\ job.count > 0 /\ job.start + job.count <= N

LEMMA TextFacts ==
  ASSUME LazyInv, IsText, pc \in {"taking", "record"}
  PROVE  /\ Types /\ TypeOK /\ job \in Jobs /\ ~Streamed /\ Reading
         /\ N \in Nat /\ taken \in 0..N /\ taken \in Nat /\ Len(out) \in Nat /\ Len(out) <= taken
         /\ Passed \in 0..N /\ Passed \in Nat /\ Passed + Len(out) = taken /\ Passed <= taken
         /\ out = From(Passed, Len(out)) /\ out \in Seq(0..Garbled)
         /\ chunks \in Seq(Seq(0..Garbled))
         /\ job.start \in Nat /\ job.count \in Nat
         /\ ~Ranged => FlattenSeq(chunks) = From(0, Passed)
         /\ Ranged => /\ chunks = <<>> /\ skipped = Least(job.start, Passed)
                      /\ result = From(job.start, Useds) /\ Useds < job.count /\ Useds \in Nat
                      /\ Len(result) = Useds /\ job.count > 0 /\ job.start + job.count <= N
<1>1. /\ Types /\ TypeOK /\ job \in Jobs /\ ~Streamed /\ Reading
      /\ taken \in 0..N /\ out \in Seq(0..Garbled) /\ chunks \in Seq(Seq(0..Garbled))
  BY DEF LazyInv, Types, TypeOK, Streamed, Reading
<1>2. N \in Nat /\ job.start \in Nat /\ job.count \in Nat
  BY <1>1, JobFacts
<1>3. Len(out) \in Nat /\ taken \in Nat
  BY <1>1, <1>2
<1>4. Len(out) <= taken /\ out = From(Passed, Len(out))
  BY <1>1 DEF LazyInv, PiecesInv
<1>5. Passed \in 0..N /\ Passed \in Nat /\ Passed + Len(out) = taken /\ Passed <= taken
  BY <1>1, <1>2, <1>3, <1>4 DEF Passed
<1>6. ~Ranged => FlattenSeq(chunks) = From(0, Passed)
  BY <1>1 DEF LazyInv, PiecesInv
<1>7. Ranged => /\ chunks = <<>> /\ skipped = Least(job.start, Passed)
                /\ result = From(job.start, Useds) /\ Useds < job.count
                /\ job.count > 0 /\ job.start + job.count <= N
  BY <1>1 DEF LazyInv, PiecesInv, Types
<1>8. Useds \in Nat /\ Len(From(job.start, Useds)) = Useds
  <2>1. Useds \in Nat
    BY <1>2, <1>5 DEF Useds, Used
  <2> QED BY <2>1, FromFacts
<1> QED BY <1>1, <1>2, <1>3, <1>4, <1>5, <1>6, <1>7, <1>8

(* A chunk leaves the reader.                                               *)
LEMMA YieldStep ==
  ASSUME LazyInv, IsText, pc \in {"taking", "record"},
         NEW c, c \in Seq(0..Garbled), c = From(Passed, Len(c)), taken' = Passed + Len(c), taken' \in 0..N,
         ~Ranged => Bounded(c),
         Yield(c), cache' \in Seq(0..Garbled), UNCHANGED <<job, pos, buf, bufPos, got, carry, faults>>
  PROVE  TextInv' /\ Heard /\ pc' \in {"ready", "called", "ended"}
<1> DEFINE m == Len(c)
<1>1. /\ Types /\ TypeOK /\ job \in Jobs /\ ~Streamed /\ Reading
      /\ N \in Nat /\ taken \in Nat /\ m \in Nat
      /\ Passed \in 0..N /\ Passed \in Nat /\ Passed <= taken
      /\ chunks \in Seq(Seq(0..Garbled))
      /\ job.start \in Nat /\ job.count \in Nat
  BY TextFacts
<1>2. /\ out' = <<>> /\ bytes' = 0 /\ Len(out') = 0 /\ Passed' = taken'
  <2>1. out' = <<>> /\ bytes' = 0
    BY DEF Yield
  <2>2. Len(out') = 0 /\ taken' \in Nat
    BY <1>1, <2>1
  <2> QED BY <2>1, <2>2 DEF Passed
<1>3. From(taken', 0) = <<>>
  BY FromFacts
<1>4. CASE ~Ranged
  <2>1. /\ chunks' = Append(chunks, c) /\ UNCHANGED <<skipped, result>> /\ pc' \in {"called", "ready"}
        /\ pc' = "called" => job.user \in {"callback", "file"}
    BY <1>4 DEF Yield, Hand, Goto, Ranged
  <2>2. FlattenSeq(chunks') = From(0, taken') /\ FlattenSeq(chunks) = From(0, Passed)
    <3>1. FlattenSeq(chunks) = From(0, Passed)
      BY <1>4, TextFacts
    <3>2. FlattenSeq(chunks') = From(0, Passed) \o From(Passed, m)
      BY <1>1, <2>1, <3>1, FlattenMore
    <3>3. From(0, Passed) \o From(0 + Passed, m) = From(0, Passed + m) /\ 0 + Passed = Passed
      <4>1. 0 \in Nat /\ 0 + Passed = Passed /\ Passed \in Nat /\ m \in Nat
        BY <1>1
      <4> HIDE DEF m
      <4> QED BY <4>1, FromOn, Zenon
    <3> QED BY <3>1, <3>2, <3>3
  <2>3. chunks' \in Seq(Seq(0..Garbled))
    BY <1>1, <2>1, AppendProperties
  <2>4. Types'
    BY <1>1, <1>2, <1>4, <2>1, <2>3, EmptySeq, JobSame DEF Types, TypeOK, Ranged
  <2>5. PiecesInv'
    BY <1>1, <1>2, <1>3, <1>4, <2>1, <2>2, JobSame DEF PiecesInv
  <2>6. StreamInv' /\ OutInv'
    BY <1>1, <1>2, <2>1, JobSame DEF StreamInv, OutInv
  <2>7. ChunksBounded'
    BY <1>1, <1>4, <2>1, ChunkAdded DEF LazyInv
  <2>8. Heard
    <3>1. Passed <= taken'
      BY <1>1
    <3> QED BY <1>1, <1>4, <2>1, <2>2, <3>1 DEF Heard
  <2> QED BY <2>1, <2>4, <2>5, <2>6, <2>7, <2>8 DEF TextInv
<1>5. CASE Ranged
  <2>1. /\ chunks = <<>> /\ skipped = Least(job.start, Passed)
        /\ result = From(job.start, Useds) /\ Useds < job.count /\ Useds \in Nat
        /\ Len(result) = Useds /\ job.count > 0 /\ job.start + job.count <= N
    BY <1>5, TextFacts
  <2> DEFINE v == IF Passed + m <= job.start THEN 0 ELSE Passed + m - job.start
             w == Least(job.count, v)
  <2>2. result \o Useful(From(Passed, m)) = From(job.start, w)
        /\ SkippedAfter(From(Passed, m)) = Least(job.start, Passed + m)
    <3>1. /\ job.start \in Nat /\ job.count \in Nat /\ Passed \in Nat /\ m \in Nat
          /\ skipped = Least(job.start, Passed) /\ Useds < job.count /\ result = From(job.start, Useds)
      BY <1>1, <2>1
    <3> HIDE DEF m
    <3>2. v = Used(Passed + m)
      BY <3>1 DEF Used
    <3> HIDE DEF v
    <3> QED BY <3>1, <3>2, Gathering
  <2>3. v \in Nat /\ w \in Nat /\ (w # job.count => w = v /\ v < job.count)
    <3>1. job.start \in Nat /\ job.count \in Nat /\ Passed \in Nat /\ m \in Nat
      BY <1>1
    <3> HIDE DEF m
    <3>2. v \in Nat
      BY <3>1
    <3> HIDE DEF v
    <3> QED BY <3>1, <3>2 DEF Least
  <2>4. Useds' = v
    <3>1. job' = job /\ Passed' = Passed + m
      BY <1>2
    <3>2. Useds' = IF Passed' <= job'.start THEN 0 ELSE Passed' - job'.start
      BY DEF Useds, Used
    <3>3. job.start \in Nat /\ Passed \in Nat /\ m \in Nat
      BY <1>1
    <3> HIDE DEF m
    <3>4. Useds' = IF Passed + m <= job.start THEN 0 ELSE (Passed + m) - job.start
      BY <3>1, <3>2
    <3> QED BY <3>3, <3>4
  <2> HIDE DEF v, w
  <2>5. Gather(c)
    BY <1>5 DEF Yield, Ranged
  <2>6. result' = From(job.start, w) /\ skipped' = Least(job.start, taken') /\ Len(result') = w
    <3>1. result' = From(job.start, w) /\ skipped' = Least(job.start, taken')
      BY <2>2, <2>5 DEF Gather
    <3> QED BY <2>3, <3>1, FromFacts
  <2>7. result' \in Seq(0..Garbled) /\ skipped' \in Nat
    <3>1. skipped \in Nat /\ result \in Seq(0..Garbled)
      BY <1>1 DEF TypeOK
    <3>2. Useful(c) \in Seq(0..Garbled) /\ SkippedAfter(c) \in Nat
      BY <1>1, <2>1, <3>1, UsefulType
    <3>3. result' = result \o Useful(c) /\ skipped' = SkippedAfter(c)
      BY <2>5 DEF Gather
    <3> QED BY <3>1, <3>2, <3>3, ConcatProperties
  <2>8. CASE w = job.count
    <3>1. chunks' = <<From(job.start, job.count)>> /\ chunks' = <<result'>> /\ pc' = "ended"
      BY <2>5, <2>6, <2>8 DEF Gather, Goto
    <3>2. chunks' \in Seq(Seq(0..Garbled))
      BY <2>7, <3>1
    <3>3. Types'
      BY <1>1, <1>2, <2>7, <3>1, <3>2, EmptySeq, JobSame DEF Types, TypeOK, Ranged, Reading
    <3>4. PiecesInv' /\ StreamInv' /\ OutInv'
      BY <1>1, <1>2, <1>3, <1>5, <3>1, JobSame DEF PiecesInv, Reading, StreamInv, OutInv
    <3>5. ChunksBounded'
      BY <1>5 DEF ChunksBounded, Ranged
    <3>6. Heard
      BY <1>5, <2>1, <3>1 DEF Heard
    <3> QED BY <3>1, <3>3, <3>4, <3>5, <3>6 DEF TextInv
  <2>9. CASE w # job.count
    <3>1. chunks' = chunks /\ pc' = "ready"
      BY <2>5, <2>6, <2>9 DEF Gather, Goto
    <3>2. Types'
      BY <1>1, <1>2, <1>5, <2>1, <2>7, <3>1, EmptySeq, JobSame DEF Types, TypeOK, Ranged
    <3>3. PiecesInv'
      BY <1>1, <1>2, <1>3, <1>5, <2>1, <2>3, <2>4, <2>6, <2>9, <3>1, JobSame DEF PiecesInv
    <3>4. StreamInv' /\ OutInv'
      BY <1>1, <1>2, <3>1, JobSame DEF StreamInv, OutInv
    <3>5. ChunksBounded'
      BY <1>5 DEF ChunksBounded, Ranged
    <3>6. Heard
      BY <1>5, <3>1 DEF Heard
    <3> QED BY <3>1, <3>2, <3>3, <3>4, <3>5, <3>6 DEF TextInv
  <2> QED BY <2>8, <2>9
<1> QED BY <1>4, <1>5

(* An element joins the chunk, and may complete it.                         *)
LEMMA BoundedFull ==
  ASSUME LazyInv, IsText, pc \in {"taking", "record"}, Len(out) < MaxElements,
         NEW e \in 0..Garbled, job.lazy \/ ~Over(e)
  PROVE  Bounded(Append(out, e))
<1> DEFINE c == Append(out, e)
<1>1. job \in Jobs /\ out \in Seq(0..Garbled) /\ Len(out) \in Nat
  BY TextFacts
<1>2. /\ bytes = Size(out) /\ Len(out) <= MaxElements
      /\ out # <<>> => Size(out) <= ByteLimit \/ (~job.lazy /\ Len(out) = 1)
  BY DEF LazyInv, OutInv
<1>3. MaxElements \in Nat /\ ByteLimit \in Nat
  BY <1>1, LimitFacts
<1>4. Len(c) = Len(out) + 1 /\ c \in Seq(0..Garbled) /\ Front(c) = out
  BY <1>1, AppendProperties, FrontAppend
<1>5. Size(c) = Size(out) + TextLen(e) /\ Size(out) \in Nat /\ TextLen(e) \in Nat
  BY <1>1, SizeMore
<1> HIDE DEF c
<1>6. Len(c) <= MaxElements
  BY <1>1, <1>3, <1>4
<1>7. out = <<>> => Len(c) = 1
  BY <1>4
<1>8. job.lazy /\ out # <<>> => Size(Front(c)) <= ByteLimit
  BY <1>2, <1>4
<1>9. ~job.lazy /\ out # <<>> => Size(c) <= ByteLimit
  BY <1>2, <1>3, <1>5 DEF Over
<1>10. Cut = job.lazy
  BY <1>1, JobFacts DEF Cut
<1> QED BY <1>6, <1>7, <1>8, <1>9, <1>10 DEF Bounded, c

LEMMA BoundedOut ==
  ASSUME LazyInv, IsText, pc \in {"taking", "record"}
  PROVE  Bounded(out)
<1>1. job \in Jobs /\ out \in Seq(0..Garbled) /\ Len(out) \in Nat
  BY TextFacts
<1>2. /\ Len(out) <= MaxElements
      /\ out # <<>> => Size(out) <= ByteLimit \/ (~job.lazy /\ Len(out) = 1)
  BY DEF LazyInv, OutInv
<1>3. ByteLimit \in Nat
  BY <1>1, LimitFacts
<1>4. Cut = job.lazy
  BY <1>1, JobFacts DEF Cut
<1>5. CASE out = <<>>
  <2>1. Front(out) = <<>>
    <3>1. 1 \in Int /\ Len(out) - 1 \in Int /\ Len(out) - 1 < 1
      BY <1>5
    <3> QED BY <3>1, SubSeqEmpty DEF Front
  <2>2. Size(Front(out)) <= ByteLimit /\ Size(out) <= ByteLimit
    BY <1>3, <1>5, <2>1, SizeNone
  <2>3. Size(IF Cut THEN Front(out) ELSE out) <= ByteLimit
    BY <2>2
  <2> QED BY <1>2, <2>3 DEF Bounded
<1>6. CASE out # <<>> /\ job.lazy
  <2> DEFINE f == Front(out)
             e == out[Len(out)]
  <2>1. f \in Seq(0..Garbled) /\ e \in 0..Garbled /\ out = Append(f, e)
    BY <1>1, <1>6, FrontLast
  <2> HIDE DEF f, e
  <2>2. Size(Append(f, e)) = Size(f) + TextLen(e) /\ Size(f) \in Nat /\ TextLen(e) \in Nat
    BY <1>1, <2>1, SizeMore
  <2>3. Size(out) = Size(f) + TextLen(e) /\ Size(out) <= ByteLimit
    BY <1>2, <1>6, <2>1, <2>2
  <2>4. Size(f) <= ByteLimit
    BY <1>3, <2>2, <2>3
  <2>5. Size(IF Cut THEN Front(out) ELSE out) <= ByteLimit
    BY <1>4, <1>6, <2>4 DEF f
  <2> QED BY <1>2, <2>5 DEF Bounded
<1>7. CASE out # <<>> /\ ~job.lazy
  <2>1. ~Cut /\ (Size(out) <= ByteLimit \/ Len(out) = 1)
    BY <1>2, <1>4, <1>7
  <2>2. Size(IF Cut THEN Front(out) ELSE out) = Size(out)
    BY <2>1
  <2> QED BY <1>2, <2>1, <2>2 DEF Bounded
<1> QED BY <1>5, <1>6, <1>7

LEMMA PushStep ==
  ASSUME LazyInv, IsText, pc \in {"taking", "record"}, taken < N, Len(out) < MaxElements,
         NEW e \in 0..Garbled, e = Element(taken + 1), job.lazy \/ ~Over(e),
         Push(e), cache' \in Seq(0..Garbled), UNCHANGED <<job, pos, buf, bufPos, got, carry, faults>>
  PROVE  TextInv' /\ Heard /\ pc' \in {"taking", "ready", "called", "ended"} /\ taken' = taken + 1
<1> DEFINE c == Append(out, e)
           m == Len(out)
<1>1. /\ Types /\ TypeOK /\ job \in Jobs /\ ~Streamed /\ Reading
      /\ N \in Nat /\ taken \in Nat /\ m \in Nat /\ m <= taken
      /\ Passed \in 0..N /\ Passed \in Nat /\ Passed + m = taken
      /\ out \in Seq(0..Garbled) /\ out = From(Passed, m)
  BY TextFacts
<1>2. taken' = taken + 1 /\ taken' \in 0..N
  BY <1>1 DEF Push
<1>3. c \in Seq(0..Garbled) /\ Len(c) = m + 1 /\ taken' = Passed + Len(c) /\ c = From(Passed, Len(c))
  <2>1. c \in Seq(0..Garbled) /\ Len(c) = m + 1
    BY <1>1, AppendProperties
  <2>2. e = Element(Passed + m + 1)
    BY <1>1
  <2>3. Append(From(Passed, m), Element(Passed + m + 1)) = From(Passed, m + 1)
    <3> HIDE DEF m
    <3> QED BY <1>1, FromOne
  <2>4. c = From(Passed, m + 1)
    BY <1>1, <2>2, <2>3
  <2>5. taken' = Passed + (m + 1)
    <3> HIDE DEF m
    <3> QED BY <1>1, <1>2
  <2> HIDE DEF c, m
  <2> QED BY <2>1, <2>4, <2>5
<1>4. CASE Over(e) \/ Full(bytes + TextLen(e))
  <2>1. Yield(c)
    BY <1>4 DEF Push
  <2>2. Bounded(c)
    BY BoundedFull
  <2> HIDE DEF c
  <2> QED BY <1>2, <1>3, <2>1, <2>2, YieldStep
<1>5. CASE ~(Over(e) \/ Full(bytes + TextLen(e)))
  <2>1. out' = c /\ bytes' = bytes + TextLen(e) /\ pc' = "taking" /\ UNCHANGED gvars
    BY <1>5 DEF Push, Goto
  <2>2. Passed' = Passed /\ Useds' = Useds
    <3>1. Passed' = taken' - Len(c)
      BY <2>1 DEF Passed
    <3>2. taken' - Len(c) = Passed
      <4> HIDE DEF c
      <4> QED BY <1>1, <1>2, <1>3
    <3> QED BY <3>1, <3>2 DEF Useds, Used
  <2>3. bytes = Size(out) /\ Size(c) = Size(out) + TextLen(e) /\ Size(out) \in Nat /\ TextLen(e) \in Nat
    <3>1. bytes = Size(out)
      BY DEF LazyInv, OutInv
    <3> QED BY <1>1, <3>1, SizeMore
  <2>4. /\ MaxElements \in Nat /\ ByteLimit \in Nat
    BY <1>1, LimitFacts
  <2>5. Size(c) <= ByteLimit \/ (~job.lazy /\ Len(c) = 1)
    <3>1. CASE Size(c) >= ByteLimit
      <4>1. job.user = "callback" /\ ~job.lazy
        BY <1>5, <2>3, <3>1 DEF Full
      <4>2. out = <<>> \/ ~(bytes + TextLen(e) > ByteLimit)
        BY <1>5 DEF Over
      <4>3. out = <<>> => Len(c) = 1
        BY <1>3
      <4>4. ~(Size(c) > ByteLimit) => Size(c) <= ByteLimit
        BY <2>3, <2>4
      <4> QED BY <2>3, <4>1, <4>2, <4>3, <4>4
    <3>2. CASE ~(Size(c) >= ByteLimit)
      <4> HIDE DEF c
      <4>1. Size(c) \in Nat
        BY <2>3
      <4> QED BY <2>4, <3>2, <4>1
    <3> QED BY <3>1, <3>2
  <2>6. Len(c) <= MaxElements
    BY <1>1, <1>3, <2>4
  <2>7. bytes' \in Nat /\ bytes' = Size(c)
    BY <2>1, <2>3
  <2> HIDE DEF c, m
  <2>8. Types'
    BY <1>1, <1>2, <1>3, <2>1, <2>7, JobSame DEF Types, TypeOK, gvars, Ranged, Reading
  <2>9. PiecesInv'
    <3>1. Len(out') <= taken' /\ out' = From(Passed', Len(out'))
      BY <1>1, <1>2, <1>3, <2>1, <2>2
    <3>2. /\ ~Ranged => FlattenSeq(chunks) = From(0, Passed)
          /\ Ranged => /\ chunks = <<>> /\ skipped = Least(job.start, Passed)
                       /\ result = From(job.start, Useds) /\ Useds < job.count
      BY TextFacts
    <3> QED BY <2>1, <2>2, <3>1, <3>2, JobSame DEF PiecesInv, gvars, Reading
  <2>10. StreamInv'
    BY <1>1, JobSame DEF StreamInv
  <2>11. OutInv'
    BY <2>1, <2>5, <2>6, <2>7, JobSame DEF OutInv
  <2>12. ChunksBounded'
    BY <2>1, ChunksSame DEF LazyInv, gvars
  <2>13. Heard
    <3>1. ~Ranged => FlattenSeq(chunks) = From(0, Passed)
      BY TextFacts
    <3>2. chunks' = chunks
      BY <2>1 DEF gvars
    <3> QED BY <1>1, <2>1, <3>1, <3>2 DEF Heard
  <2> QED BY <1>2, <2>1, <2>8, <2>9, <2>10, <2>11, <2>12, <2>13 DEF TextInv
<1> QED BY <1>4, <1>5
-----------------------------------------------------------------------------
(* Strings, an element at a time.                                           *)
LEMMA NoMoreStep == ASSUME LazyInv, NoMore PROVE LazyInv' /\ Heard
<1>1. /\ pc = "taking" /\ Yield(out) /\ taken' = taken /\ cache' = cache
      /\ UNCHANGED <<job, pos, buf, bufPos, got, carry, faults>>
  BY DEF NoMore, rvars
<1>2. IsText
  BY <1>1 DEF LazyInv, Types
<1>3. /\ out \in Seq(0..Garbled) /\ out = From(Passed, Len(out)) /\ taken' = Passed + Len(out)
      /\ taken' \in 0..N /\ cache' \in Seq(0..Garbled)
  <2>1. /\ out \in Seq(0..Garbled) /\ out = From(Passed, Len(out)) /\ Passed + Len(out) = taken
        /\ taken \in 0..N /\ TypeOK
    BY <1>1, <1>2, TextFacts
  <2> QED BY <1>1, <2>1 DEF TypeOK
<1>4. Bounded(out)
  BY <1>1, <1>2, BoundedOut
<1>5. TextInv' /\ Heard /\ pc' \in {"ready", "called", "ended"}
  BY <1>1, <1>2, <1>3, <1>4, YieldStep
<1>6. ReaderInv'
  <2>1. Unread' = Unread
    BY <1>1 DEF Unread
  <2> QED BY <1>1, <1>5, <2>1, JobSame DEF LazyInv, ReaderInv
<1> QED BY <1>5, <1>6 DEF LazyInv, TextInv

LEMMA OwnedStringStep == ASSUME LazyInv, OwnedString PROVE LazyInv' /\ Heard
<1> DEFINE e == Element(taken + 1)
<1>1. /\ pc = "taking" /\ ~job.lazy /\ taken < N /\ Len(out) < MaxElements
      /\ IF Over(e) THEN Yield(out) /\ UNCHANGED taken ELSE Push(e)
      /\ cache' = cache /\ UNCHANGED <<job, pos, buf, bufPos, got, carry, faults>>
  BY DEF OwnedString, More, rvars
<1>2. IsText
  BY <1>1 DEF LazyInv, Types
<1>3. /\ out \in Seq(0..Garbled) /\ out = From(Passed, Len(out)) /\ taken = Passed + Len(out)
      /\ taken \in 0..N /\ N \in Nat /\ cache' \in Seq(0..Garbled) /\ job \in Jobs
  <2>1. /\ out \in Seq(0..Garbled) /\ out = From(Passed, Len(out)) /\ Passed + Len(out) = taken
        /\ taken \in 0..N /\ N \in Nat /\ TypeOK /\ job \in Jobs
    BY <1>1, <1>2, TextFacts
  <2> QED BY <1>1, <2>1 DEF TypeOK
<1>4. e \in 0..Garbled
  <2>1. taken + 1 \in 1..N
    BY <1>1, <1>3
  <2>2. Items[taken + 1].t # "ref"
    BY <1>1, <1>3, <2>1, JobFacts
  <2> QED BY <1>3, <2>1, <2>2, OwnedElement
<1>5. ReaderInv'
  BY <1>1, JobSame DEF ReaderInv
<1> HIDE DEF e
<1>6. CASE Over(e)
  <2>1. Bounded(out)
    BY <1>1, <1>2, BoundedOut
  <2>2. Yield(out) /\ taken' = taken
    BY <1>1, <1>6
  <2>3. TextInv' /\ Heard
    BY <1>1, <1>2, <1>3, <2>1, <2>2, YieldStep
  <2> QED BY <1>5, <2>3 DEF LazyInv, TextInv
<1>7. CASE ~Over(e)
  <2>1. Push(e)
    BY <1>1, <1>7
  <2>2. e = Element(taken + 1)
    BY DEF e
  <2>3. TextInv' /\ Heard
    BY <1>1, <1>2, <1>3, <1>4, <1>7, <2>1, <2>2, PushStep
  <2> QED BY <1>5, <2>3 DEF LazyInv, TextInv
<1> QED BY <1>6, <1>7

LEMMA StartRecordStep == ASSUME LazyInv, StartRecord PROVE LazyInv'
<1>1. /\ pc = "taking" /\ pc' = "record" /\ job.lazy /\ taken < N /\ Len(out) < MaxElements /\ got' = <<>>
      /\ UNCHANGED <<job, pos, buf, bufPos, taken, cache, out, bytes, carry, skipped, result, chunks, faults>>
  BY DEF StartRecord, More, Goto, ivars, gvars
<1>2. IsText /\ Types /\ TypeOK /\ job \in Jobs /\ taken \in 0..N /\ N \in Nat
  <2>1. IsText
    BY <1>1 DEF LazyInv, Types
  <2> QED BY <1>1, <2>1, TextFacts
<1>3. Types'
  BY <1>1, <1>2, EmptySeq, JobSame DEF Types, TypeOK, Ranged, Reading
<1>4. PiecesInv'
  <2>1. Passed' = Passed /\ Useds' = Useds
    BY <1>1 DEF Passed, Useds, Used
  <2> QED BY <1>1, <2>1, JobSame DEF LazyInv, PiecesInv, Reading
<1>5. StreamInv'
  BY <1>2, JobSame, <1>1 DEF StreamInv, Streamed
<1>6. OutInv'
  <2>1. Size(out)' = Size(out)
    BY <1>1, JobSame
  <2> QED BY <1>1, <2>1, JobSame DEF LazyInv, OutInv
<1>7. ChunksBounded'
  BY <1>1, ChunksSame DEF LazyInv
<1>8. ReaderInv'
  <2> DEFINE p == Place(taken + 1)
  <2>1. p \in Nat /\ taken + 1 \in 1..N
    <3>1. taken + 1 \in 1..N /\ taken + 1 \in 1..(N + 1)
      BY <1>1, <1>2
    <3> QED BY <1>2, <3>1, PlaceFacts
  <2>2. WireLen(Items[taken + 1]) \in Nat
    BY <1>2, <2>1, WireLenFacts
  <2>3. Unread' = Unread /\ Unread = p
    BY <1>1, <1>2 DEF Unread, LazyInv, ReaderInv
  <2>4. Len(got') = 0 /\ ReadAt(p, 0) = <<>>
    BY <1>1, <2>1, ReadAtFacts
  <2>5. Place(taken + 1)' = p /\ WireLen(Items[taken + 1])' = WireLen(Items[taken + 1])
    BY <1>1, JobSame
  <2> HIDE DEF p
  <2>6. /\ Unread' = p + Len(got') /\ got' = ReadAt(p, Len(got'))
        /\ Len(got') <= WireLen(Items[taken + 1])
    BY <1>1, <2>1, <2>2, <2>3, <2>4
  <2> QED BY <1>1, <1>2, <2>5, <2>6, JobSame DEF LazyInv, ReaderInv
<1> QED BY <1>3, <1>4, <1>5, <1>6, <1>7, <1>8 DEF LazyInv

(* What is known while a record is read.                                    *)
LEMMA RecordFacts ==
  ASSUME LazyInv, pc = "record"
  PROVE  /\ IsText /\ job.lazy /\ job \in Jobs /\ TypeOK /\ Types
         /\ N \in Nat /\ taken \in 0..N /\ taken + 1 \in 1..N /\ taken < N
         /\ Place(taken + 1) \in Nat /\ SpanLen \in Nat
         /\ WireLen(Items[taken + 1]) \in Nat
         /\ Place((taken + 1) + 1) = Place(taken + 1) + WireLen(Items[taken + 1])
         /\ Items[taken + 1].t \in {"str", "na", "ref"} /\ Items[taken + 1].len \in Nat
         /\ pos \in Nat /\ bufPos \in 0..Len(buf) /\ Len(buf) \in Nat /\ Len(buf) <= pos /\ pos <= SpanLen
         /\ buf = ReadAt(pos - Len(buf), Len(buf))
         /\ Len(got) \in Nat /\ Unread = Place(taken + 1) + Len(got)
         /\ got = ReadAt(Place(taken + 1), Len(got)) /\ Len(got) <= WireLen(Items[taken + 1])
<1>1. /\ IsText /\ job.lazy /\ job \in Jobs /\ TypeOK /\ Types /\ taken \in 0..N /\ taken < N
  BY DEF LazyInv, Types, TypeOK
<1>2. N \in Nat
  BY <1>1, JobFacts
<1>3. taken + 1 \in 1..N /\ taken + 1 \in 1..(N + 1)
  BY <1>1, <1>2
<1>4. /\ Place(taken + 1) \in Nat
      /\ Place((taken + 1) + 1) = Place(taken + 1) + WireLen(Items[taken + 1])
  BY <1>1, <1>3, PlaceFacts
<1>5. SpanLen \in Nat /\ WireLen(Items[taken + 1]) \in Nat
  BY <1>1, <1>3, SpanFacts, WireLenFacts
<1>6. Items[taken + 1].t \in {"str", "na", "ref"} /\ Items[taken + 1].len \in Nat
  BY <1>1, <1>3, JobFacts DEF Kinds
<1>7. pos \in Nat /\ bufPos \in 0..Len(buf) /\ Len(buf) \in Nat /\ Len(got) \in Nat
  BY <1>1 DEF TypeOK
<1>8. /\ Len(buf) <= pos /\ pos <= SpanLen /\ buf = ReadAt(pos - Len(buf), Len(buf))
      /\ Unread = Place(taken + 1) + Len(got)
      /\ got = ReadAt(Place(taken + 1), Len(got)) /\ Len(got) <= WireLen(Items[taken + 1])
  BY <1>1 DEF LazyInv, ReaderInv
<1> QED BY <1>1, <1>2, <1>3, <1>4, <1>5, <1>6, <1>7, <1>8

(* What is asked for is part of the record, and all of it in the end.       *)
LEMMA NeedFacts ==
  ASSUME LazyInv, pc = "record"
  PROVE  /\ Need \in Nat \ {0} /\ Need <= WireLen(Items[taken + 1])
         /\ got # <<>> => got[1] = Place(taken + 1) /\ Here = taken + 1
         /\ Len(got) = Need => got # <<>> /\ Need = WireLen(Items[taken + 1])
<1> DEFINE k == taken + 1
           x == Items[k]
<1>1. /\ IsText /\ job \in Jobs /\ k \in 1..N /\ k # 0 /\ Place(k) \in Nat
      /\ x.t \in {"str", "na", "ref"} /\ x.len \in Nat
      /\ Len(got) \in Nat /\ got = ReadAt(Place(k), Len(got)) /\ Len(got) <= WireLen(x)
  BY RecordFacts
<1>2. /\ x.t = "str" => WireLen(x) = 2 + x.len
      /\ x.t = "na" => WireLen(x) = 2
      /\ x.t = "ref" => WireLen(x) = 1
  BY DEF WireLen
<1> HIDE DEF k, x
<1>3. CASE got = <<>>
  <2>1. Need = 1 /\ Len(got) = 0
    BY <1>3 DEF Need
  <2> QED BY <1>1, <1>2, <1>3, <2>1 DEF x, k
<1>4. CASE got # <<>>
  <2>1. Len(got) # 0
    BY <1>1, <1>4, ReadAtFacts
  <2>2. got[1] = Place(k)
    <3>1. 1 \in 1..Len(got)
      BY <1>1, <2>1
    <3>2. ReadAt(Place(k), Len(got))[1] = Place(k) + 1 - 1
      BY <1>1, <3>1, ReadAtFacts
    <3>3. Place(k) + 1 - 1 = Place(k)
      BY <1>1
    <3> QED BY <1>1, <3>2, <3>3
  <2>3. Here = k
    BY <1>1, <2>2, HereIs
  <2>4. Need = IF x.t = "ref" THEN 1 ELSE IF Len(got) = 1 \/ x.t = "na" THEN 2 ELSE 2 + x.len
    BY <1>1, <1>4, <2>3 DEF Need, x
  <2>5. /\ Need \in Nat \ {0} /\ Need <= WireLen(x)
        /\ Len(got) = Need => Need = WireLen(x)
    <3>1. CASE x.t = "ref"
      <4>1. Need = 1 /\ WireLen(x) = 1
        BY <1>2, <2>4, <3>1
      <4> QED BY <4>1
    <3>2. CASE x.t = "na"
      <4>1. Need = 2 /\ WireLen(x) = 2
        BY <1>2, <2>4, <3>2
      <4> QED BY <4>1
    <3>3. CASE x.t = "str"
      <4>1. WireLen(x) = 2 + x.len /\ Need = IF Len(got) = 1 THEN 2 ELSE 2 + x.len
        BY <1>2, <2>4, <3>3
      <4> DEFINE l == x.len
      <4>2. l \in Nat /\ WireLen(x) = 2 + l
        BY <1>1, <4>1
      <4>3. CASE Len(got) = 1
        <5>1. Need = 2 /\ Len(got) # Need
          BY <4>1, <4>3
        <5> HIDE DEF l
        <5>2. 2 <= 2 + l
          BY <4>2
        <5> QED BY <4>2, <5>1, <5>2
      <4>4. CASE Len(got) # 1
        <5>1. Need = 2 + l
          BY <4>1, <4>4
        <5> HIDE DEF l
        <5>2. 2 + l \in Nat \ {0} /\ 2 + l <= 2 + l
          BY <4>2
        <5> QED BY <4>2, <5>1, <5>2
      <4> QED BY <4>3, <4>4
    <3> QED BY <1>1, <3>1, <3>2, <3>3
  <2> QED BY <1>4, <2>2, <2>3, <2>5 DEF x, k
<1> QED BY <1>3, <1>4
-----------------------------------------------------------------------------
(* The bytes of a record arrive.                                            *)
LEMMA BytesStep ==
  ASSUME LazyInv, pc = "record", pc' = pc,
         UNCHANGED <<job, taken, cache, out, bytes, carry, skipped, result, chunks, faults>>,
         pos' \in Nat, buf' \in Seq(Nat), bufPos' \in 0..Len(buf'), got' \in Seq(Nat),
         Len(buf') <= pos', pos' <= SpanLen, buf' = ReadAt(pos' - Len(buf'), Len(buf')),
         Unread' = Place(taken + 1) + Len(got'), got' = ReadAt(Place(taken + 1), Len(got')),
         Len(got') <= WireLen(Items[taken + 1])
  PROVE  LazyInv'
<1>1. IsText /\ Types /\ TypeOK /\ job \in Jobs
  BY RecordFacts
<1>2. Types'
  BY <1>1, JobSame DEF Types, TypeOK, Ranged, Reading
<1>3. PiecesInv'
  <2>1. Passed' = Passed /\ Useds' = Useds
    BY DEF Passed, Useds, Used
  <2> QED BY <2>1, JobSame DEF LazyInv, PiecesInv, Reading
<1>4. StreamInv'
  BY <1>1, JobSame DEF StreamInv, Streamed
<1>5. OutInv'
  <2>1. Size(out)' = Size(out)
    BY JobSame
  <2> QED BY <2>1, JobSame DEF LazyInv, OutInv
<1>6. ChunksBounded'
  BY ChunksSame DEF LazyInv
<1>7. ReaderInv'
  <2>1. Place(taken + 1)' = Place(taken + 1) /\ WireLen(Items[taken + 1])' = WireLen(Items[taken + 1])
    BY JobSame
  <2>2. /\ Len(cache) = Cardinality(SpelledTo(taken))
        /\ \A i \in 1..Len(cache) : cache[i] = Plain(Nth(i))
    BY <1>1, RecordFacts DEF LazyInv, ReaderInv
  <2>3. \A i : Plain(Nth(i))' = Plain(Nth(i))
    BY JobSame
  <2>4. SpelledTo(taken)' = SpelledTo(taken) /\ SpanLen' = SpanLen
    BY JobSame
  <2>5. Len(cache') = Cardinality(SpelledTo(taken)')
    BY <2>2, <2>4
  <2>6. \A i \in 1..Len(cache') : cache'[i] = Plain(Nth(i))'
    BY <2>2, <2>3
  <2> QED BY <2>1, <2>4, <2>5, <2>6 DEF ReaderInv
<1> QED BY <1>2, <1>3, <1>4, <1>5, <1>6, <1>7 DEF LazyInv

LEMMA RefillStep == ASSUME LazyInv, Refill PROVE LazyInv' /\ UNCHANGED <<job, chunks>> /\ pc' \in {"record", "failed"}
<1>1. /\ pc = "record" /\ bufPos = Len(buf)
      /\ UNCHANGED <<job, taken, cache, out, bytes, carry, skipped, result, chunks, faults>>
  BY DEF Refill, Exhausted, ivars, gvars
<1>2. /\ TypeOK /\ job \in Jobs /\ pos \in Nat /\ Len(buf) \in Nat /\ SpanLen \in Nat
      /\ Len(buf) <= pos /\ Len(got) \in Nat /\ job.limit \in Nat /\ Place(taken + 1) \in Nat
      /\ Unread = Place(taken + 1) + Len(got)
      /\ got = ReadAt(Place(taken + 1), Len(got)) /\ Len(got) <= WireLen(Items[taken + 1])
  BY <1>1, RecordFacts, JobFacts
<1>3. CASE pos < SpanLen
  <2> DEFINE n == Least(SpanLen - pos, ReaderSize)
  <2>1. /\ buf' = ReadAt(pos, n) /\ pos' = pos + n /\ bufPos' = 0 /\ got' = got /\ pc' = pc
    BY <1>3 DEF Refill, Fill
  <2>2. n \in Nat /\ n <= SpanLen - pos
    <3>1. SpanLen - pos \in Nat
      BY <1>2, <1>3
    <3>2. ReaderSize \in Nat
      BY <1>2 DEF ReaderSize, Largest
    <3> QED BY <3>1, <3>2, Smaller
  <2> HIDE DEF n
  <2>3. buf' \in Seq(Nat) /\ Len(buf') = n
    BY <1>2, <2>1, <2>2, ReadAtFacts
  <2>4. /\ pos' \in Nat /\ Len(buf') <= pos' /\ pos' <= SpanLen /\ bufPos' \in 0..Len(buf')
        /\ pos' - Len(buf') = pos
    BY <1>2, <2>1, <2>2, <2>3
  <2>5. buf' = ReadAt(pos' - Len(buf'), Len(buf'))
    BY <2>1, <2>3, <2>4
  <2>6. Unread' = Place(taken + 1) + Len(got')
    <3>1. Unread = pos /\ Unread' = pos
      BY <1>1, <1>2, <2>1, <2>4 DEF Unread
    <3> QED BY <1>2, <2>1, <3>1
  <2>7. got \in Seq(Nat)
    BY <1>2 DEF TypeOK
  <2>8. LazyInv'
    BY <1>1, <1>2, <2>1, <2>3, <2>4, <2>5, <2>6, <2>7, BytesStep
  <2> QED BY <1>1, <2>1, <2>8
<1>4. CASE ~(pos < SpanLen)
  <2>1. Quiet /\ pc' = "failed" /\ faults' = faults
    BY <1>1, <1>4 DEF Refill, Truncated, Goto, rvars, Quiet
  <2>2. faults' \in 0..Faults
    BY <1>2, <2>1 DEF TypeOK
  <2>3. LazyInv'
    BY <1>1, <2>1, <2>2, QuietStep
  <2> QED BY <1>1, <2>1, <2>3
<1> QED BY <1>3, <1>4

LEMMA ReadExactStep == ASSUME LazyInv, ReadExact PROVE LazyInv'
<1> DEFINE n == Least(Len(buf) - bufPos, Need - Len(got))
           p == Place(taken + 1)
<1>1. /\ pc = "record" /\ pc' = pc /\ n > 0 /\ Len(got) < Need
      /\ got' = got \o SubSeq(buf, bufPos + 1, bufPos + n) /\ bufPos' = bufPos + n
      /\ UNCHANGED <<job, pos, buf, taken, cache, out, bytes, carry, skipped, result, chunks, faults>>
  BY DEF ReadExact, Copy, ivars, gvars
<1>2. /\ TypeOK /\ pos \in Nat /\ Len(buf) \in Nat /\ bufPos \in 0..Len(buf) /\ bufPos \in Nat
      /\ Len(buf) <= pos /\ pos <= SpanLen /\ buf = ReadAt(pos - Len(buf), Len(buf))
      /\ Len(got) \in Nat /\ p \in Nat /\ Unread = p + Len(got)
      /\ got = ReadAt(p, Len(got)) /\ WireLen(Items[taken + 1]) \in Nat
  <2>1. /\ TypeOK /\ pos \in Nat /\ Len(buf) \in Nat /\ bufPos \in 0..Len(buf)
        /\ Len(buf) <= pos /\ pos <= SpanLen /\ buf = ReadAt(pos - Len(buf), Len(buf))
        /\ Len(got) \in Nat /\ p \in Nat /\ Unread = p + Len(got)
        /\ got = ReadAt(p, Len(got)) /\ WireLen(Items[taken + 1]) \in Nat
    BY <1>1, RecordFacts
  <2>2. bufPos \in Nat
    BY <2>1
  <2> QED BY <2>1, <2>2
<1>3. Need \in Nat /\ Need <= WireLen(Items[taken + 1])
  BY <1>1, NeedFacts
<1>4. n \in Nat /\ n <= Len(buf) - bufPos /\ n <= Need - Len(got)
  <2>1. Len(buf) - bufPos \in Nat /\ Need - Len(got) \in Nat
    BY <1>1, <1>2, <1>3
  <2> QED BY <2>1, Smaller
<1> HIDE DEF n, p
<1>5. SubSeq(buf, bufPos + 1, bufPos + n) = ReadAt(p + Len(got), n)
  <2> DEFINE a == pos - Len(buf)
             l == Len(buf)
  <2>1. a \in Nat /\ l \in Nat /\ bufPos + n <= l
    BY <1>2, <1>4
  <2>2. a + bufPos = p + Len(got)
    BY <1>2 DEF Unread
  <2>3. buf = ReadAt(a, l)
    BY <1>2
  <2> HIDE DEF a, l
  <2>4. SubSeq(ReadAt(a, l), bufPos + 1, bufPos + n) = ReadAt(a + bufPos, n)
    <3>1. a \in Nat /\ l \in Nat /\ bufPos \in Nat /\ n \in 0..(l - bufPos)
      BY <1>2, <1>4, <2>1
    <3> QED BY <3>1, ReadAtPart, Zenon
  <2> QED BY <2>2, <2>3, <2>4
<1>6. got' = ReadAt(p, Len(got) + n)
  <2> DEFINE l == Len(got)
  <2>1. l \in Nat /\ got = ReadAt(p, l) /\ got' = got \o ReadAt(p + l, n)
    BY <1>1, <1>2, <1>5
  <2> HIDE DEF l
  <2>2. got' = ReadAt(p, l + n)
    <3>1. p \in Nat /\ l \in Nat /\ n \in Nat
      BY <1>2, <1>4, <2>1
    <3>2. ReadAt(p, l) \o ReadAt(p + l, n) = ReadAt(p, l + n)
      BY <3>1, ReadAtOn, Zenon
    <3> QED BY <2>1, <3>2
  <2> QED BY <2>2 DEF l
<1>7. got' \in Seq(Nat) /\ Len(got') = Len(got) + n
  <2>1. Len(got) + n \in Nat
    BY <1>2, <1>4
  <2> QED BY <1>2, <1>6, <2>1, ReadAtFacts
<1>8. Len(got') <= WireLen(Items[taken + 1]) /\ got' = ReadAt(p, Len(got'))
  <2>1. got' = ReadAt(p, Len(got'))
    BY <1>6, <1>7
  <2> DEFINE l == Len(got)
             w == WireLen(Items[taken + 1])
  <2>2. l \in Nat /\ w \in Nat /\ Len(got') = l + n /\ n <= Need - l /\ Need <= w
    BY <1>2, <1>3, <1>4, <1>7
  <2> HIDE DEF l, w
  <2>3. Len(got') <= w
    BY <1>3, <1>4, <2>2
  <2> QED BY <2>1, <2>3 DEF w
<1>9. Unread' = p + Len(got')
  <2>1. Unread' = pos - Len(buf) + (bufPos + n)
    BY <1>1 DEF Unread
  <2>2. Unread = pos - Len(buf) + bufPos
    BY DEF Unread
  <2> DEFINE l == Len(got)
             m == Len(buf)
  <2>3. /\ l \in Nat /\ m \in Nat /\ Len(got') = l + n /\ pos - m + bufPos = p + l
        /\ Unread' = pos - m + (bufPos + n)
    BY <1>2, <1>7, <2>1, <2>2
  <2> HIDE DEF l, m
  <2>4. pos - m + (bufPos + n) = (pos - m + bufPos) + n
    BY <1>2, <1>4, <2>3
  <2> QED BY <1>2, <1>4, <2>3, <2>4
<1>10. bufPos' \in 0..Len(buf') /\ buf' \in Seq(Nat)
  BY <1>1, <1>2, <1>4 DEF TypeOK
<1> QED BY <1>1, <1>2, <1>7, <1>8, <1>9, <1>10, BytesStep DEF p

(* A complete record is an element, and the reader is at the next one.      *)
LEMMA RecordDone ==
  ASSUME LazyInv, pc = "record", Len(got) = Need, taken' = taken + 1, pc' # "record",
         UNCHANGED <<job, pos, buf, bufPos, got>>,
         Len(cache') = Cardinality(SpelledTo(taken + 1)),
         \A i \in 1..Len(cache') : cache'[i] = Plain(Nth(i))
  PROVE  ReaderInv'
<1>1. /\ Len(buf) <= pos /\ pos <= SpanLen /\ buf = ReadAt(pos - Len(buf), Len(buf))
      /\ Place((taken + 1) + 1) = Place(taken + 1) + WireLen(Items[taken + 1])
      /\ Unread = Place(taken + 1) + Len(got)
  BY RecordFacts
<1>2. Len(got) = WireLen(Items[taken + 1])
  BY NeedFacts
<1>3. Unread' = Unread
  BY DEF Unread
<1>4. Unread' = Place(taken' + 1)
  BY <1>1, <1>2, <1>3
<1>5. /\ SpanLen' = SpanLen
      /\ \A j : Place(j)' = Place(j)
      /\ \A j : SpelledTo(j)' = SpelledTo(j)
      /\ \A j : Plain(j)' = Plain(j)
      /\ \A j : Nth(j)' = Nth(j)
  BY JobSame
<1>6. SpelledTo(taken)' = SpelledTo(taken + 1)
  <2>1. Items' = Items /\ N' = N
    BY DEF Items, N
  <2>2. Spelled' = Spelled
    BY <2>1 DEF Spelled
  <2>3. SpelledTo(taken)' = {j \in Spelled' : j <= taken'}
    BY DEF SpelledTo
  <2>4. SpelledTo(taken + 1) = {j \in Spelled : j <= taken + 1}
    BY DEF SpelledTo
  <2> QED BY <2>2, <2>3, <2>4
<1>7. \A i \in 1..Len(cache') : cache'[i] = Plain(Nth(i))'
  BY <1>5
<1>8. Unread' = Place(taken + 1)'
  BY <1>4 DEF Place, WireLen, Items, Width
<1> QED BY <1>1, <1>5, <1>6, <1>7, <1>8 DEF ReaderInv

LEMMA StringStep == ASSUME LazyInv, String PROVE LazyInv' /\ Heard
<1> DEFINE k == taken + 1
<1>1. /\ pc = "record" /\ Len(got) = Need /\ (Here = 0 \/ Items[Here].t # "ref")
      /\ cache' = Append(cache, Spelling) /\ Push(Spelling)
      /\ UNCHANGED <<job, pos, buf, bufPos, got, carry, faults>>
  BY DEF String, WithSpelled, rvars
<1>2. /\ IsText /\ job.lazy /\ job \in Jobs /\ TypeOK /\ N \in Nat /\ taken \in 0..N /\ k \in 1..N /\ taken < N
      /\ got = ReadAt(Place(k), Len(got)) /\ k # 0
  BY <1>1, RecordFacts
<1>3. got[1] = Place(k) /\ Here = k
  BY <1>1, NeedFacts
<1>4. Items[k].t # "ref"
  BY <1>1, <1>2, <1>3
<1>5. Spelling = Plain(k)
  BY <1>1, <1>2, <1>3 DEF Spelling
<1>6. Plain(k) = Element(k) /\ Element(k) \in 0..Garbled
  BY <1>2, <1>4, OwnedElement
<1> DEFINE e == Plain(k)
<1>7. /\ cache \in Seq(0..Garbled) /\ cache' \in Seq(0..Garbled) /\ Len(cache) \in Nat
      /\ Len(cache') = Len(cache) + 1 /\ (\A i \in 1..Len(cache) : cache'[i] = cache[i])
      /\ cache'[Len(cache) + 1] = e
  <2>1. cache \in Seq(0..Garbled) /\ e \in 0..Garbled
    BY <1>2, <1>6 DEF TypeOK
  <2>2. cache' = Append(cache, e)
    BY <1>1, <1>5
  <2> HIDE DEF e
  <2> QED BY <2>1, <2>2, AppendProperties
<1>8. Len(out) < MaxElements
  BY <1>1, <1>2 DEF LazyInv, OutInv
<1>9. TextInv' /\ Heard /\ pc' # "record" /\ taken' = taken + 1
  <2>1. e \in 0..Garbled /\ e = Element(taken + 1) /\ Push(e)
    BY <1>1, <1>5, <1>6
  <2> HIDE DEF e
  <2>2. /\ TextInv' /\ Heard /\ taken' = taken + 1
        /\ pc' \in {"taking", "ready", "called", "ended"}
    BY <1>1, <1>2, <1>7, <1>8, <2>1, PushStep
  <2> QED BY <2>2
<1>10. /\ Len(cache) = Cardinality(SpelledTo(taken))
       /\ \A i \in 1..Len(cache) : cache[i] = Plain(Nth(i))
  BY <1>2 DEF LazyInv, ReaderInv
<1>11. Len(cache') = Cardinality(SpelledTo(k))
  BY <1>2, <1>4, <1>7, <1>10, SpelledFacts
<1>12. ASSUME NEW i \in 1..Len(cache') PROVE cache'[i] = Plain(Nth(i))
  <2>1. CASE i \in 1..Len(cache)
    BY <1>7, <1>10, <2>1
  <2>2. CASE i = Len(cache')
    <3>1. k \in Spelled
      BY <1>2, <1>4 DEF Spelled
    <3>2. Nth(i) = k
      BY <1>2, <1>11, <2>2, <3>1, NthIs
    <3> QED BY <1>7, <2>2, <3>2
  <2>3. i \in 1..Len(cache) \/ i = Len(cache')
    BY <1>7
  <2> QED BY <2>1, <2>2, <2>3
<1>13. ReaderInv'
  BY <1>1, <1>9, <1>11, <1>12, RecordDone
<1> QED BY <1>9, <1>13 DEF LazyInv, TextInv

LEMMA ReferenceStep ==
  ASSUME LazyInv, Reference
  PROVE  LazyInv' /\ (Heard \/ (chunks' = chunks /\ pc' = "failed"))
<1> DEFINE k == taken + 1
<1>1. /\ pc = "record" /\ Len(got) = Need /\ Items[Here].t = "ref"
      /\ IF Items[Here].to \in 1..Len(cache) THEN Push(cache[Items[Here].to])
         ELSE Goto("failed") /\ UNCHANGED <<taken, out, bytes, gvars>>
      /\ cache' = cache /\ UNCHANGED <<job, pos, buf, bufPos, got, carry, faults>>
  BY DEF Reference, rvars
<1>2. /\ IsText /\ job.lazy /\ job \in Jobs /\ TypeOK /\ N \in Nat /\ taken \in 0..N /\ k \in 1..N /\ taken < N
  BY <1>1, RecordFacts
<1>3. Here = k
  BY <1>1, NeedFacts
<1>4. cache \in Seq(0..Garbled) /\ cache' \in Seq(0..Garbled) /\ faults \in 0..Faults
  BY <1>1, <1>2 DEF TypeOK
<1>5. /\ Len(cache) = Cardinality(SpelledTo(taken))
      /\ \A i \in 1..Len(cache) : cache[i] = Plain(Nth(i))
  BY <1>2 DEF LazyInv, ReaderInv
<1>6. CASE Items[k].to \in 1..Len(cache)
  <2> DEFINE e == cache[Items[k].to]
  <2>1. e \in 0..Garbled /\ e = Plain(Nth(Items[k].to))
    BY <1>4, <1>5, <1>6, ElementOfSeq
  <2>2. Element(k) = Plain(Nth(Items[k].to))
    <3>1. k - 1 = taken /\ Items[k].t = "ref"
      BY <1>1, <1>2, <1>3
    <3>2. Items[k].to \in 1..Cardinality(SpelledTo(k - 1))
      BY <1>5, <1>6, <3>1
    <3> QED BY <1>2, <3>1, <3>2, RefElement
  <2>3. Push(e)
    BY <1>1, <1>3, <1>6
  <2>4. Len(out) < MaxElements
    BY <1>1, <1>2 DEF LazyInv, OutInv
  <2>5. e = Element(taken + 1)
    BY <2>1, <2>2
  <2> HIDE DEF e
  <2>6. /\ TextInv' /\ Heard /\ taken' = taken + 1
        /\ pc' \in {"taking", "ready", "called", "ended"}
    BY <1>1, <1>2, <1>4, <2>1, <2>3, <2>4, <2>5, PushStep
  <2>7. SpelledTo(k) = SpelledTo(taken)
    BY <1>1, <1>2, <1>3, SpelledFacts
  <2>8. ReaderInv'
    BY <1>1, <1>5, <2>6, <2>7, RecordDone
  <2> QED BY <2>6, <2>8 DEF LazyInv, TextInv
<1>7. CASE Items[k].to \notin 1..Len(cache)
  <2>1. Quiet /\ pc' = "failed" /\ faults' \in 0..Faults
    BY <1>1, <1>3, <1>4, <1>7 DEF Quiet, Goto, gvars
  <2>2. LazyInv'
    BY <1>1, <2>1, QuietStep
  <2> QED BY <2>1, <2>2 DEF Quiet
<1> QED BY <1>6, <1>7
-----------------------------------------------------------------------------
(* What a step is to the caller.                                            *)
Told == [Delivery!Next]_(Delivery!dvars)

LEMMA WantedFacts ==
  ASSUME job \in Jobs
  PROVE  /\ ~Ranged => Wanted = From(0, N)
         /\ Ranged /\ job.start + job.count <= N => Wanted = From(job.start, job.count)
         /\ Ranged /\ job.count = 0 => Wanted = <<>>
<1>1. N \in Nat /\ job.start \in Nat /\ job.count \in Nat
  BY JobFacts
<1>2. \A k \in 1..N : 0 + k = k
  BY <1>1
<1>3. CASE ~Ranged
  BY <1>2, <1>3 DEF Wanted, Ranged, From
<1>4. CASE Ranged /\ job.start + job.count <= N
  <2>1. ~(job.start + job.count > N)
    BY <1>1, <1>4
  <2>2. Wanted = From(job.start, job.count)
    BY <1>4, <2>1 DEF Wanted, Ranged, From
  <2>3. job.count = 0 => From(job.start, job.count) = <<>>
    BY FromFacts
  <2> QED BY <1>4, <2>2, <2>3
<1>5. CASE Ranged /\ ~(job.start + job.count <= N)
  <2>1. job.start + job.count > N
    BY <1>1, <1>5
  <2> QED BY <1>5, <2>1 DEF Wanted, Ranged
<1> QED BY <1>3, <1>4, <1>5

LEMMA TellNothing ==
  ASSUME job' = job, chunks' = chunks,
         pc' = pc \/ (pc \notin {"ended", "failed"} /\ pc' \notin {"ended", "failed"})
  PROVE  Told
<1>1. Wanted' = Wanted
  BY JobSame
<1> QED BY <1>1 DEF Told, Delivery!dvars

LEMMA TellFailure ==
  ASSUME job' = job, chunks' = chunks, pc \notin {"ended", "failed"}, pc' = "failed"
  PROVE  Told
<1>1. Wanted' = Wanted
  BY JobSame
<1>2. Delivery!Fail
  BY <1>1 DEF Delivery!Fail
<1> QED BY <1>2 DEF Told, Delivery!Next

LEMMA TellRetry ==
  ASSUME job' = job, chunks' = chunks, pc = "failed", pc' = "ready"
  PROVE  Told
<1>1. Wanted' = Wanted
  BY JobSame
<1>2. Delivery!Resume
  BY <1>1 DEF Delivery!Resume
<1> QED BY <1>2 DEF Told, Delivery!Next

LEMMA TellEnd ==
  ASSUME job' = job, chunks' = chunks, pc \notin {"ended", "failed"}, pc' = "ended",
         FlattenSeq(chunks) = Wanted
  PROVE  Told
<1>1. Wanted' = Wanted
  BY JobSame
<1>2. Delivery!Finish
  BY <1>1 DEF Delivery!Finish
<1> QED BY <1>2 DEF Told, Delivery!Next

LEMMA TellElements ==
  ASSUME job \in Jobs, job' = job, pc \notin {"ended", "failed"}, Heard
  PROVE  Told
<1>1. Wanted' = Wanted /\ N \in Nat /\ job.start \in Nat /\ job.count \in Nat
  BY JobSame, JobFacts
<1>2. CASE ~Ranged
  <2>1. pc' \notin {"ended", "failed"}
    BY <1>2 DEF Heard
  <2>2. PICK d \in 0..N, e \in 0..N :
          d <= e /\ FlattenSeq(chunks) = From(0, d) /\ FlattenSeq(chunks') = From(0, e)
    BY <1>2 DEF Heard
  <2>3. d \in Nat /\ e \in Nat /\ e <= N
    BY <1>1
  <2>4. CASE d = e
    <3>1. FlattenSeq(chunks') = FlattenSeq(chunks)
      BY <2>2, <2>4
    <3>2. FlattenSeq(chunks)' = FlattenSeq(chunks)
      BY <3>1
    <3> QED BY <1>1, <2>1, <3>2 DEF Told, Delivery!dvars
  <2>5. CASE d # e
    <3>1. Wanted = From(0, N) /\ Len(Wanted) = N /\ Len(FlattenSeq(chunks)) = d
      BY <1>1, <1>2, <2>2, <2>3, WantedFacts, FromFacts
    <3>2. e \in Len(FlattenSeq(chunks)) + 1 .. Len(Wanted)
      BY <1>1, <2>2, <2>3, <2>5, <3>1
    <3>3. FlattenSeq(chunks') = SubSeq(Wanted, 1, e)
      <4>1. 0 \in Nat /\ e \in 0..(N - 0) /\ 0 + 1 = 1 /\ 0 + e = e /\ 0 + 0 = 0
        BY <1>1, <2>3
      <4>2. SubSeq(From(0, N), 0 + 1, 0 + e) = From(0 + 0, e)
        BY <1>1, <4>1, FromPart, Zenon
      <4> QED BY <2>2, <3>1, <4>1, <4>2
    <3>4. Delivery!Deliver
      BY <1>1, <2>1, <3>2, <3>3 DEF Delivery!Deliver
    <3> QED BY <3>4 DEF Told, Delivery!Next
  <2> QED BY <2>4, <2>5
<1>3. CASE Ranged /\ chunks' = chunks /\ pc' \in {"ready", "taking", "record"}
  BY <1>3, TellNothing
<1>4. CASE /\ Ranged /\ chunks = <<>> /\ chunks' = <<From(job.start, job.count)>> /\ pc' = "ended"
           /\ job.count > 0 /\ job.start + job.count <= N
  <2> DEFINE c == From(job.start, job.count)
  <2>1. Wanted = c /\ Len(Wanted) = job.count
    BY <1>1, <1>4, WantedFacts, FromFacts
  <2>2. c \in Seq({Element(job.start + k) : k \in 1..job.count})
    BY <1>1, FromType
  <2>3. FlattenSeq(chunks') = c
    <3> HIDE DEF c
    <3>1. FlattenSeq(<<c>>) = c
      BY <2>2, FlattenOne
    <3> QED BY <1>4, <3>1 DEF c
  <2>4. Len(FlattenSeq(chunks)) = 0
    BY <1>4, FlattenNone
  <2>5. job.count \in Len(FlattenSeq(chunks)) + 1 .. Len(Wanted)
    BY <1>1, <1>4, <2>1, <2>4
  <2>6. SubSeq(Wanted, 1, job.count) = Wanted
    <3> DEFINE a == job.start
               m == job.count
    <3>1. a \in Nat /\ m \in Nat
      BY <1>1
    <3> HIDE DEF a, m
    <3>2. 0 \in Nat /\ m \in 0..(m - 0) /\ 0 + 1 = 1 /\ 0 + m = m /\ a + 0 = a
      BY <3>1
    <3>3. SubSeq(From(a, m), 0 + 1, 0 + m) = From(a + 0, m)
      BY <3>1, <3>2, FromPart, Zenon
    <3>4. SubSeq(From(a, m), 1, m) = From(a, m)
      BY <3>2, <3>3
    <3> QED BY <2>1, <3>4 DEF a, m
  <2>7. Delivery!Deliver
    <3>1. FlattenSeq(chunks') = SubSeq(Wanted, 1, job.count) /\ FlattenSeq(chunks') = Wanted
      BY <2>1, <2>3, <2>6
    <3> HIDE DEF c
    <3> QED BY <1>1, <1>4, <2>5, <3>1 DEF Delivery!Deliver
  <2> QED BY <2>7 DEF Told, Delivery!Next
<1> QED BY <1>2, <1>3, <1>4 DEF Heard

(* The steps that move nothing.                                             *)
QuietAction == Begin \/ Finish \/ Accepted \/ ReadFails \/ RefillFails \/ Refused \/ Retry

LEMMA QuietActionStep == ASSUME LazyInv, QuietAction PROVE LazyInv'
<1>1. faults \in 0..Faults /\ Faults \in Nat
  BY LazyAssumption DEF LazyInv, Types, TypeOK
<1>2. Quiet /\ faults' \in 0..Faults
  <2> DEFINE Still == UNCHANGED <<rvars, ivars, carry, gvars, job>>
  <2>1. Still => Quiet
    BY DEF Quiet, rvars, ivars, gvars
  <2>2. Still /\ (faults' = faults \/ (faults < Faults /\ faults' = faults + 1))
    BY DEF QuietAction, Begin, Finish, Accepted, ReadFails, RefillFails, Refused, Retry
  <2>3. faults' \in 0..Faults
    BY <1>1, <2>2
  <2> QED BY <2>1, <2>2, <2>3
<1>3. CASE Begin
  BY <1>2, <1>3, QuietStep DEF Begin, Goto
<1>4. CASE Finish
  BY <1>2, <1>4, QuietStep DEF Finish, Goto
<1>5. CASE Accepted \/ Refused
  BY <1>2, <1>5, QuietStep DEF Accepted, Refused, Goto
<1>6. CASE ReadFails \/ RefillFails
  BY <1>2, <1>6, QuietStep DEF ReadFails, RefillFails, Goto
<1>7. CASE Retry
  BY <1>2, <1>7, QuietStep DEF Retry, Goto
<1> QED BY <1>3, <1>4, <1>5, <1>6, <1>7 DEF QuietAction

(* At the end everything has been handed over.                              *)
LEMMA FinishTold == ASSUME LazyInv, Finish PROVE Told
<1>1. /\ pc = "ready" /\ pc' = (IF Ranged THEN "failed" ELSE "ended") /\ job' = job /\ chunks' = chunks
      /\ IF Streamed THEN pos = Stop ELSE taken = N
  BY DEF Finish, Goto, gvars, Ranged
<1>2. job \in Jobs /\ Types /\ TypeOK /\ N \in Nat /\ Width \in Nat /\ Reading
  <2>1. job \in Jobs /\ Types /\ TypeOK
    BY DEF LazyInv, Types, TypeOK
  <2> QED BY <1>1, <2>1, JobFacts DEF Reading
<1>3. CASE Ranged
  BY <1>1, <1>3, TellFailure
<1>4. CASE ~Ranged
  <2>1. FlattenSeq(chunks) = From(0, N)
    <3>1. CASE Streamed
      <4>1. PICK d \in 0..N :
              /\ FlattenSeq(chunks) = From(0, d)
              /\ Len(carry) < Width /\ pos = d * Width + Len(carry)
        BY <1>2, <1>4, <3>1 DEF LazyInv, StreamInv
      <4>2. pos = N * Width /\ Width > 0 /\ Len(carry) \in Nat
        BY <1>1, <1>2, <1>4, <3>1, SpanFacts DEF TypeOK
      <4>3. d \in Nat /\ d <= N
        BY <1>2
      <4>4. N * Width < (d + 1) * Width
        <5>1. 1 \in Nat /\ 1 * Width = Width
          BY <1>2
        <5>2. (d + 1) * Width = d * Width + Width /\ d * Width \in Nat /\ N * Width \in Nat
          BY <1>2, <4>3, <5>1, TimesOn
        <5> DEFINE x == d * Width
                   y == N * Width
                   z == (d + 1) * Width
        <5>3. x \in Nat /\ z = x + Width /\ y = x + Len(carry)
          BY <4>1, <4>2, <5>2
        <5> HIDE DEF x, y, z
        <5>4. y < z
          BY <1>2, <4>1, <4>2, <5>3
        <5> QED BY <5>4 DEF y, z
      <4>5. N <= d
        BY <1>2, <4>2, <4>3, <4>4, TimesOn
      <4> QED BY <1>2, <4>1, <4>3, <4>5
    <3>2. CASE ~Streamed
      <4>1. out = <<>> /\ FlattenSeq(chunks) = From(0, Passed)
        BY <1>1, <1>2, <1>4, <3>2 DEF LazyInv, PiecesInv
      <4>2. Len(out) = 0 /\ taken = N
        BY <1>1, <3>2, <4>1
      <4>3. Passed = N
        BY <1>2, <4>2 DEF Passed
      <4> QED BY <4>1, <4>3
    <3> QED BY <3>1, <3>2
  <2>2. FlattenSeq(chunks) = Wanted
    BY <1>2, <1>4, <2>1, WantedFacts
  <2> QED BY <1>1, <1>4, <2>2, TellEnd
<1> QED BY <1>3, <1>4

LEMMA OpenTold == ASSUME LazyInv, Open PROVE Told
<1>1. pc = "open" /\ job' = job /\ chunks' = chunks /\ pc' \in {"ready", "ended", "failed"}
      /\ (pc' = "ended" => Ranged /\ job.count = 0)
  BY DEF Open, Goto, gvars, Ranged
<1>2. job \in Jobs /\ chunks = <<>>
  BY <1>1 DEF LazyInv, Types, TypeOK
<1>3. CASE pc' = "ready"
  BY <1>1, <1>3, TellNothing
<1>4. CASE pc' = "failed"
  BY <1>1, <1>4, TellFailure
<1>5. CASE pc' = "ended"
  <2>1. FlattenSeq(chunks) = Wanted
    BY <1>1, <1>2, <1>5, WantedFacts, FlattenNone
  <2> QED BY <1>1, <1>5, <2>1, TellEnd
<1> QED BY <1>1, <1>3, <1>4, <1>5

LEMMA FixedTold ==
  ASSUME LazyInv, OwnedNext \/ FixedNext, LazyInv', taken < taken'
  PROVE  Told
<1>1. /\ pc = "ready" /\ ~IsText /\ job' = job /\ (~job.lazy \/ job.user = "iterator")
  BY DEF OwnedNext, FixedNext
<1>2. job \in Jobs /\ N \in Nat /\ taken \in 0..N
  <2>1. job \in Jobs /\ taken \in 0..N
    BY DEF LazyInv, Types, TypeOK
  <2> QED BY <2>1, JobFacts
<1>3. ~Ranged /\ ~Streamed
  <2>1. ~Ranged
    BY <1>1, <1>2, JobFacts DEF Ranged
  <2> QED BY <1>1, <2>1 DEF Streamed
<1>4. out = <<>> /\ FlattenSeq(chunks) = From(0, Passed)
  BY <1>1, <1>3 DEF LazyInv, PiecesInv, Reading
<1>5. Streamed' = Streamed /\ Ranged' = Ranged /\ IsText' = IsText /\ N' = N
      /\ \A a, n : From(a, n)' = From(a, n)
  BY <1>1, JobSame
<1>6. /\ out' = <<>> /\ pc' \in {"ready", "called"} /\ taken' \in 0..N
  <2>1. out' = <<>> /\ pc' \in {"ready", "called"}
    BY <1>1, <1>3 DEF OwnedNext, FixedNext, Yield, Hand, Goto, Ranged
  <2>2. taken' \in 0..N'
    BY DEF LazyInv, Types, TypeOK
  <2> QED BY <1>5, <2>1, <2>2
<1>7. FlattenSeq(chunks') = From(0, Passed')
  <2>1. PiecesInv' /\ ~Streamed' /\ ~Ranged'
    BY <1>3, <1>5 DEF LazyInv
  <2>2. FlattenSeq(chunks)' = From(0, Passed)'
    BY <2>1 DEF PiecesInv
  <2> QED BY <1>5, <2>2
<1>8. Passed = taken /\ Passed' = taken'
  <2>1. Len(out) = 0 /\ Len(out') = 0
    BY <1>4, <1>6
  <2>2. Passed = taken - 0 /\ Passed' = taken' - 0
    BY <2>1 DEF Passed
  <2>3. taken \in Nat /\ taken' \in Nat
    BY <1>2, <1>6
  <2>4. taken - 0 = taken /\ taken' - 0 = taken'
    <3>1. \A n \in Nat : n - 0 = n
      OBVIOUS
    <3> QED BY <2>3, <3>1, Zenon
  <2> QED BY <2>2, <2>4
<1>9. Heard
  <2>1. taken <= taken'
    BY <1>2, <1>6
  <2> QED BY <1>2, <1>3, <1>4, <1>6, <1>7, <1>8, <2>1 DEF Heard
<1> QED BY <1>1, <1>2, <1>9, TellElements
-----------------------------------------------------------------------------
(* Every step keeps the invariant, and is to the caller what the delivery   *)
(* of a vector allows.                                                      *)
LEMMA StepHolds == ASSUME LazyInv, [Next]_vars PROVE LazyInv' /\ Told
<1>1. job \in Jobs /\ Types /\ TypeOK
  BY DEF LazyInv, Types, TypeOK
<1>2. CASE UNCHANGED vars
  <2>1. /\ UNCHANGED <<job, pc, pos, buf, bufPos, got, taken, cache, out, bytes, carry>>
        /\ UNCHANGED <<skipped, result, chunks, faults>>
    BY <1>2 DEF vars, rvars, ivars, gvars
  <2>2. Told
    BY <2>1, TellNothing
  <2>3. Types'
    BY <1>1, <2>1, JobSame DEF Types, TypeOK, Ranged, Reading
  <2>4. PiecesInv'
    <3>1. Passed' = Passed /\ Useds' = Useds
      BY <2>1 DEF Passed, Useds, Used
    <3> QED BY <2>1, <3>1, JobSame DEF LazyInv, PiecesInv, Reading
  <2>5. StreamInv'
    <3>1. StreamInv /\ Reading' = Reading
      BY <2>1 DEF LazyInv, Reading
    <3>2. Streamed' = Streamed /\ Ranged' = Ranged
      BY <2>1, JobSame
    <3>3. CASE Streamed /\ Reading /\ Ranged
      BY <2>1, <3>1, <3>2, <3>3, JobSame DEF StreamInv
    <3>4. CASE Streamed /\ Reading /\ ~Ranged
      <4>1. PICK d \in 0..N :
              /\ FlattenSeq(chunks) = From(0, d)
              /\ Len(carry) < Width /\ pos = d * Width + Len(carry) /\ pos <= SpanLen
              /\ carry = ReadAt(d * Width, Len(carry))
        BY <3>1, <3>4 DEF StreamInv
      <4>2. N' = N /\ Width' = Width /\ SpanLen' = SpanLen /\ From(0, d)' = From(0, d)
        BY <2>1, JobSame
      <4>3. /\ FlattenSeq(chunks)' = From(0, d)'
            /\ Len(carry') < Width' /\ pos' = d * Width' + Len(carry') /\ pos' <= SpanLen'
            /\ carry' = ReadAt(d * Width', Len(carry'))
        BY <2>1, <4>1, <4>2
      <4> QED BY <3>2, <3>4, <4>2, <4>3 DEF StreamInv
    <3>5. CASE ~(Streamed /\ Reading)
      BY <3>1, <3>2, <3>5 DEF StreamInv
    <3> QED BY <3>3, <3>4, <3>5
  <2>6. ReaderInv'
    <3>1. Unread' = Unread
      BY <2>1 DEF Unread
    <3> QED BY <2>1, <3>1, JobSame DEF LazyInv, ReaderInv
  <2>7. OutInv'
    BY <2>1, JobSame DEF LazyInv, OutInv
  <2>8. ChunksBounded'
    BY <2>1, ChunksSame DEF LazyInv
  <2> QED BY <2>2, <2>3, <2>4, <2>5, <2>6, <2>7, <2>8 DEF LazyInv
<1>3. CASE Open
  BY <1>3, OpenStep, OpenTold
<1>4. CASE OwnedNext
  BY <1>4, OwnedNextStep, FixedTold
<1>5. CASE FixedNext
  BY <1>5, FixedNextStep, FixedTold
<1>6. CASE StreamNext
  <2>1. job' = job /\ pc = "ready"
    BY <1>6, StreamNextFacts
  <2>2. CASE Ranged
    <3>1. LazyInv' /\ chunks = <<>>
          /\ \/ pc' = pc /\ chunks' = chunks
             \/ pc' = "ended" /\ chunks' = <<From(job.start, job.count)>>
      BY <1>6, <2>2, StreamRangeStep
    <3>2. job.start + job.count <= N /\ job.count > 0
      BY <1>1, <2>1, <2>2 DEF Types, Reading
    <3>3. Heard
      BY <2>1, <2>2, <3>1, <3>2 DEF Heard
    <3> QED BY <1>1, <2>1, <3>1, <3>3, TellElements
  <2>3. CASE ~Ranged
    <3>1. /\ LazyInv' /\ pc' \in {"ready", "called"}
          /\ \E d \in 0..N, e \in 0..N :
               /\ d <= e /\ FlattenSeq(chunks) = From(0, d) /\ FlattenSeq(chunks') = From(0, e)
      BY <1>6, <2>3, StreamCallStep
    <3>2. Heard
      BY <2>3, <3>1 DEF Heard
    <3> QED BY <1>1, <2>1, <3>1, <3>2, TellElements
  <2> QED BY <2>2, <2>3
<1>7. CASE NoMore
  <2>1. LazyInv' /\ Heard
    BY <1>7, NoMoreStep
  <2>2. job' = job /\ pc = "taking"
    BY <1>7 DEF NoMore
  <2> QED BY <1>1, <2>1, <2>2, TellElements
<1>8. CASE OwnedString
  <2>1. LazyInv' /\ Heard
    BY <1>8, OwnedStringStep
  <2>2. job' = job /\ pc = "taking"
    BY <1>8 DEF OwnedString
  <2> QED BY <1>1, <2>1, <2>2, TellElements
<1>9. CASE StartRecord
  <2>1. LazyInv'
    BY <1>9, StartRecordStep
  <2>2. job' = job /\ chunks' = chunks /\ pc = "taking" /\ pc' = "record"
    BY <1>9 DEF StartRecord, Goto, gvars
  <2> QED BY <2>1, <2>2, TellNothing
<1>10. CASE Refill
  <2>1. LazyInv' /\ job' = job /\ chunks' = chunks /\ pc' \in {"record", "failed"}
    BY <1>10, RefillStep
  <2>2. pc = "record"
    BY <1>10 DEF Refill
  <2> QED BY <2>1, <2>2, TellNothing, TellFailure
<1>11. CASE ReadExact
  <2>1. LazyInv'
    BY <1>11, ReadExactStep
  <2>2. job' = job /\ chunks' = chunks /\ pc' = pc
    BY <1>11 DEF ReadExact, gvars
  <2> QED BY <2>1, <2>2, TellNothing
<1>12. CASE String
  <2>1. LazyInv' /\ Heard
    BY <1>12, StringStep
  <2>2. job' = job /\ pc = "record"
    BY <1>12 DEF String
  <2> QED BY <1>1, <2>1, <2>2, TellElements
<1>13. CASE Reference
  <2>1. LazyInv' /\ (Heard \/ (chunks' = chunks /\ pc' = "failed"))
    BY <1>13, ReferenceStep
  <2>2. job' = job /\ pc = "record"
    BY <1>13 DEF Reference
  <2> QED BY <1>1, <2>1, <2>2, TellElements, TellFailure
<1>14. CASE Finish
  BY <1>14, QuietActionStep, FinishTold DEF QuietAction
<1>15. CASE Begin \/ Accepted
  <2>1. LazyInv'
    BY <1>15, QuietActionStep DEF QuietAction
  <2>2. job' = job /\ chunks' = chunks /\ pc \in {"ready", "called"} /\ pc' \in {"ready", "taking"}
    BY <1>15 DEF Begin, Accepted, Goto, gvars
  <2> QED BY <2>1, <2>2, TellNothing
<1>16. CASE ReadFails \/ RefillFails \/ Refused
  <2>1. LazyInv'
    BY <1>16, QuietActionStep DEF QuietAction
  <2>2. job' = job /\ chunks' = chunks /\ pc \in {"ready", "record", "called"} /\ pc' = "failed"
    BY <1>16 DEF ReadFails, RefillFails, Refused, Goto, gvars
  <2> QED BY <2>1, <2>2, TellFailure
<1>17. CASE Retry
  <2>1. LazyInv'
    BY <1>17, QuietActionStep DEF QuietAction
  <2>2. job' = job /\ chunks' = chunks /\ pc = "failed" /\ pc' = "ready"
    BY <1>17 DEF Retry, Goto, gvars
  <2> QED BY <2>1, <2>2, TellRetry
<1> QED BY <1>2, <1>3, <1>4, <1>5, <1>6, <1>7, <1>8, <1>9, <1>10, <1>11, <1>12, <1>13, <1>14,
           <1>15, <1>16, <1>17 DEF Next, Step

(* The inductive invariant: what has been handed over is the first of the   *)
(* elements that were asked for, and where the reader is follows from it.   *)
THEOREM LazyInvariant == Spec => []LazyInv
<1>1. LazyInv /\ [Next]_vars => LazyInv'
  BY StepHolds
<1> QED BY InitInv, <1>1, PTL DEF Spec

(* Every variable of every reading stays in its type, the vectors and their *)
(* elements as many as they may be.                                         *)
THEOREM TypeCorrect == Spec => []TypeOK
<1>1. LazyInv => TypeOK
  BY DEF LazyInv, Types
<1> QED BY LazyInvariant, <1>1, PTL

(* A chunk that an iterator, a callback or a file gets keeps to the number  *)
(* of elements and to the bytes that were asked for, whatever the vector,   *)
(* the limits and the reads that cut it.                                    *)
THEOREM ChunksKeepLimits == Spec => []ChunksBounded
<1>1. LazyInv => ChunksBounded
  BY DEF LazyInv
<1> QED BY LazyInvariant, <1>1, PTL

(* However a vector is read, the caller gets its elements in order, each    *)
(* once, and hears of the end when there is nothing left: every step of     *)
(* every reader is a step of the delivery, or one the caller does not see.  *)
THEOREM ReadersDeliver == Spec => ImplementsDelivery
<1>1. Init => Delivery!Init
  BY FlattenNone DEF Init, Delivery!Init
<1>2. LazyInv /\ [Next]_vars => [Delivery!Next]_(Delivery!dvars)
  BY StepHolds DEF Told
<1> QED BY LazyInvariant, <1>1, <1>2, PTL DEF Spec, ImplementsDelivery, Delivery!Spec
=============================================================================
