----------------------------- MODULE RetryProofs -----------------------------
(***************************************************************************)
(* The retrying parse, for every object, every limit of the buffer and every*)
(* input: each attempt starts from clean tables, what is returned is what a *)
(* single pass returns as far as it has come, and what fits is parsed.      *)
(***************************************************************************)
EXTENDS RetryParse, FiniteSetTheorems, SequenceTheorems, TLAPS

(* Of the natural numbers there are in a set, one is the least.             *)
LEMMA Least ==
  ASSUME NEW T \in SUBSET Nat, T # {}
  PROVE \E x \in T : \A y \in T : x <= y
<1> DEFINE U == {1..n : n \in T}
<1>1. IsWellFoundedOn(StrictSubsetOrdering(Nat), FiniteSubsetsOf(Nat))
  BY FS_StrictSubsetOrderingWellFounded
<1>2. U \subseteq FiniteSubsetsOf(Nat) /\ U # {}
  <2>1. ASSUME NEW n \in T PROVE IsFiniteSet(1..n) /\ 1..n \in SUBSET Nat
    BY FS_Interval
  <2> QED BY <2>1 DEF FiniteSubsetsOf
<1>3. PICK m \in U : \A u \in U : <<u, m>> \notin StrictSubsetOrdering(Nat)
  <2> HIDE DEF U
  <2> QED BY <1>1, <1>2, WFMin
<1>4. PICK x \in T : m = 1..x
  OBVIOUS
<1>5. ASSUME NEW y \in T PROVE x <= y
  <2>1. 1..y \in SUBSET Nat /\ 1..x \in SUBSET Nat
    OBVIOUS
  <2>2. ~(1..y \subseteq 1..x /\ 1..y # 1..x)
    BY <1>3, <1>4, <2>1 DEF StrictSubsetOrdering
  <2>3. SUFFICES ASSUME y < x PROVE FALSE
    OBVIOUS
  <2>4. x \in 1..x /\ x \notin 1..y
    BY <2>3
  <2> QED BY <2>2, <2>3, <2>4
<1> QED BY <1>5

LEMMA Induct ==
  ASSUME NEW T, 0 \in T, \A n \in Nat : n \in T => n + 1 \in T
  PROVE  \A n \in Nat : n \in T
<1> SUFFICES ASSUME \E n \in Nat : n \notin T PROVE FALSE
  OBVIOUS
<1> DEFINE U == {n \in Nat : n \notin T}
<1>1. PICK x \in U : \A y \in U : x <= y
  <2>1. U \in SUBSET Nat /\ U # {}
    OBVIOUS
  <2> HIDE DEF U
  <2> QED BY <2>1, Least
<1>2. x \in Nat /\ x # 0
  OBVIOUS
<1>3. x - 1 \in Nat /\ ~(x <= x - 1) /\ (x - 1) + 1 = x
  BY <1>2
<1>4. x - 1 \in T
  BY <1>1, <1>3
<1> QED BY <1>3, <1>4
-----------------------------------------------------------------------------
(* The parts that are read one after the other: each function that is used  *)
(* as a run of the reader has the tables at each place.                     *)
Run(g, o, t, i, j) == g = [k \in (i - 1)..j |-> IF k < i THEN t ELSE Read(g[k - 1], o[k].kind)]

LEMMA RunExists ==
  ASSUME NEW o, NEW t, NEW i \in Nat \ {0}, NEW m \in Nat
  PROVE  \E g : Run(g, o, t, i, (i - 1) + m)
<1> DEFINE T == {n \in Nat : \E g : Run(g, o, t, i, (i - 1) + n)}
<1>1. 0 \in T
  <2> DEFINE g == [k \in (i - 1)..((i - 1) + 0) |-> t]
  <2>1. \A k \in (i - 1)..((i - 1) + 0) : k < i
    OBVIOUS
  <2>2. Run(g, o, t, i, (i - 1) + 0)
    BY <2>1 DEF Run
  <2> QED BY <2>2
<1>2. ASSUME NEW n \in Nat, n \in T PROVE n + 1 \in T
  <2>1. PICK g : Run(g, o, t, i, (i - 1) + n)
    BY <1>2
  <2> DEFINE last == (i - 1) + (n + 1)
             e(k) == IF k < i THEN t ELSE Read(g[k - 1], o[k].kind)
             h == [k \in (i - 1)..last |-> e(k)]
             H(f) == [k \in (i - 1)..last |-> IF k < i THEN t ELSE Read(f[k - 1], o[k].kind)]
  <2>2. \A k \in (i - 1)..last : k < last => g[k] = e(k)
    <3> TAKE k \in (i - 1)..last
    <3>1. k < last => k \in (i - 1)..((i - 1) + n)
      BY <1>2
    <3> QED BY <2>1, <3>1 DEF Run
  <2>3. \A k \in (i - 1)..last : k < i \/ (k - 1 \in (i - 1)..last /\ k - 1 < last)
    BY <1>2
  <2>4. \A k \in (i - 1)..last : h[k] = H(h)[k]
    <3> TAKE k \in (i - 1)..last
    <3>1. CASE k < i
      BY <3>1
    <3>2. CASE ~(k < i)
      <4>1. g[k - 1] = h[k - 1]
        <5> HIDE DEF e
        <5> QED BY <2>2, <2>3, <3>2
      <4>2. h[k] = Read(g[k - 1], o[k].kind) /\ H(h)[k] = Read(h[k - 1], o[k].kind)
        <5> HIDE DEF h
        <5>1. H(h)[k] = Read(h[k - 1], o[k].kind)
          BY <3>2
        <5>2. h[k] = e(k)
          BY DEF h
        <5> QED BY <3>2, <5>1, <5>2
      <4> QED BY <4>1, <4>2
    <3> QED BY <3>1, <3>2
  <2>5. h = H(h)
    <3> HIDE DEF e
    <3>1. h = [k \in (i - 1)..last |-> h[k]]
      OBVIOUS
    <3> HIDE DEF h
    <3>2. H(h) = [k \in (i - 1)..last |-> H(h)[k]]
      OBVIOUS
    <3> HIDE DEF H
    <3> QED BY <2>4, <3>1, <3>2
  <2>6. Run(h, o, t, i, last)
    <3> HIDE DEF h
    <3> QED BY <2>5 DEF Run
  <2> QED BY <2>6
<1> HIDE DEF T
<1>3. m \in T
  BY <1>1, <1>2, Induct
<1> QED BY <1>3 DEF T

LEMMA RunUnique ==
  ASSUME NEW o, NEW t, NEW i \in Nat \ {0}, NEW j \in Int, NEW m \in Int,
         NEW g, NEW h, Run(g, o, t, i, j), Run(h, o, t, i, m)
  PROVE  \A n \in Nat : (i - 1) + n <= j /\ (i - 1) + n <= m => g[(i - 1) + n] = h[(i - 1) + n]
<1> DEFINE T == {n \in Nat : (i - 1) + n <= j /\ (i - 1) + n <= m => g[(i - 1) + n] = h[(i - 1) + n]}
<1>1. 0 \in T
  <2>1. (i - 1) + 0 < i
    OBVIOUS
  <2> QED BY <2>1 DEF Run
<1>2. ASSUME NEW n \in Nat, n \in T PROVE n + 1 \in T
  <2> SUFFICES ASSUME (i - 1) + (n + 1) <= j, (i - 1) + (n + 1) <= m
               PROVE  g[(i - 1) + (n + 1)] = h[(i - 1) + (n + 1)]
    OBVIOUS
  <2> DEFINE k == (i - 1) + (n + 1)
  <2>1. k \in (i - 1)..j /\ k \in (i - 1)..m /\ ~(k < i) /\ k - 1 = (i - 1) + n /\ k - 1 <= j /\ k - 1 <= m
    OBVIOUS
  <2>2. g[k - 1] = h[k - 1]
    BY <1>2, <2>1
  <2> HIDE DEF k
  <2>3. g[k] = Read(g[k - 1], o[k].kind) /\ h[k] = Read(h[k - 1], o[k].kind)
    BY <2>1 DEF Run
  <2>4. g[k] = h[k]
    BY <2>2, <2>3
  <2> QED BY <2>4 DEF k
<1> HIDE DEF T
<1>3. \A n \in Nat : n \in T
  BY <1>1, <1>2, Induct
<1> QED BY <1>3 DEF T

LEMMA ReadAllRun ==
  ASSUME NEW o, NEW t, NEW i \in Nat \ {0}, NEW j \in Nat, j >= i - 1
  PROVE  \E g : Run(g, o, t, i, j) /\ ReadAll(o, t, i, j) = g[j]
<1> DEFINE g == CHOOSE f : f = [k \in (i - 1)..j |-> IF k < i THEN t ELSE Read(f[k - 1], o[k].kind)]
<1>1. \E f : Run(f, o, t, i, j)
  <2>1. j - (i - 1) \in Nat /\ (i - 1) + (j - (i - 1)) = j
    OBVIOUS
  <2> QED BY <2>1, RunExists
<1>2. g = [k \in (i - 1)..j |-> IF k < i THEN t ELSE Read(g[k - 1], o[k].kind)]
  BY <1>1 DEF Run
<1>3. ReadAll(o, t, i, j) = g[j]
  BY DEF ReadAll
<1> HIDE DEF g
<1>4. Run(g, o, t, i, j)
  BY <1>2 DEF Run
<1> QED BY <1>3, <1>4

(* Nothing is read of no part, and the last part is read last.              *)
LEMMA ReadNone ==
  ASSUME NEW o, NEW t, NEW i \in Nat \ {0}
  PROVE  ReadAll(o, t, i, i - 1) = t
<1>1. i - 1 \in Nat /\ i - 1 >= i - 1 /\ i - 1 < i
  OBVIOUS
<1>2. PICK g : Run(g, o, t, i, i - 1) /\ ReadAll(o, t, i, i - 1) = g[i - 1]
  BY <1>1, ReadAllRun
<1> QED BY <1>1, <1>2 DEF Run

LEMMA ReadMore ==
  ASSUME NEW o, NEW t, NEW i \in Nat \ {0}, NEW j \in Nat, j >= i
  PROVE  ReadAll(o, t, i, j) = Read(ReadAll(o, t, i, j - 1), o[j].kind)
<1>1. j - 1 \in Nat /\ j - 1 >= i - 1 /\ j >= i - 1 /\ j - 1 <= j /\ ~(j < i) /\ j \in (i - 1)..j
  OBVIOUS
<1>2. PICK g : Run(g, o, t, i, j) /\ ReadAll(o, t, i, j) = g[j]
  BY <1>1, ReadAllRun
<1>3. PICK h : Run(h, o, t, i, j - 1) /\ ReadAll(o, t, i, j - 1) = h[j - 1]
  BY <1>1, ReadAllRun
<1>4. g[j] = Read(g[j - 1], o[j].kind)
  BY <1>1, <1>2 DEF Run
<1>5. g[j - 1] = h[j - 1]
  <2>1. (j - 1) - (i - 1) \in Nat /\ (i - 1) + ((j - 1) - (i - 1)) = j - 1 /\ j - 1 <= j - 1
    BY <1>1
  <2>2. \A n \in Nat : (i - 1) + n <= j /\ (i - 1) + n <= j - 1 => g[(i - 1) + n] = h[(i - 1) + n]
    BY <1>1, <1>2, <1>3, RunUnique
  <2> QED BY <1>1, <2>1, <2>2
<1> QED BY <1>2, <1>3, <1>4, <1>5
-----------------------------------------------------------------------------
(* The same of the lengths of the parts.                                    *)
Sum(g, o, i, j) == g = [k \in (i - 1)..j |-> IF k < i THEN 0 ELSE g[k - 1] + o[k].len]

LEMMA SumExists ==
  ASSUME NEW o, NEW i \in Nat \ {0}, NEW m \in Nat
  PROVE  \E g : Sum(g, o, i, (i - 1) + m)
<1> DEFINE T == {n \in Nat : \E g : Sum(g, o, i, (i - 1) + n)}
<1>1. 0 \in T
  <2> DEFINE g == [k \in (i - 1)..((i - 1) + 0) |-> 0]
  <2>1. \A k \in (i - 1)..((i - 1) + 0) : k < i
    OBVIOUS
  <2>2. Sum(g, o, i, (i - 1) + 0)
    BY <2>1 DEF Sum
  <2> QED BY <2>2
<1>2. ASSUME NEW n \in Nat, n \in T PROVE n + 1 \in T
  <2>1. PICK g : Sum(g, o, i, (i - 1) + n)
    BY <1>2
  <2> DEFINE last == (i - 1) + (n + 1)
             e(k) == IF k < i THEN 0 ELSE g[k - 1] + o[k].len
             h == [k \in (i - 1)..last |-> e(k)]
             H(f) == [k \in (i - 1)..last |-> IF k < i THEN 0 ELSE f[k - 1] + o[k].len]
  <2>2. \A k \in (i - 1)..last : k < last => g[k] = e(k)
    <3> TAKE k \in (i - 1)..last
    <3>1. k < last => k \in (i - 1)..((i - 1) + n)
      BY <1>2
    <3> QED BY <2>1, <3>1 DEF Sum
  <2>3. \A k \in (i - 1)..last : k < i \/ (k - 1 \in (i - 1)..last /\ k - 1 < last)
    BY <1>2
  <2>4. \A k \in (i - 1)..last : h[k] = H(h)[k]
    <3> TAKE k \in (i - 1)..last
    <3>1. CASE k < i
      BY <3>1
    <3>2. CASE ~(k < i)
      <4>1. g[k - 1] = h[k - 1]
        <5> HIDE DEF e
        <5> QED BY <2>2, <2>3, <3>2
      <4>2. h[k] = g[k - 1] + o[k].len /\ H(h)[k] = h[k - 1] + o[k].len
        <5> HIDE DEF h
        <5>1. H(h)[k] = h[k - 1] + o[k].len
          BY <3>2
        <5>2. h[k] = e(k)
          BY DEF h
        <5> QED BY <3>2, <5>1, <5>2
      <4> QED BY <4>1, <4>2
    <3> QED BY <3>1, <3>2
  <2>5. h = H(h)
    <3> HIDE DEF e
    <3>1. h = [k \in (i - 1)..last |-> h[k]]
      OBVIOUS
    <3> HIDE DEF h
    <3>2. H(h) = [k \in (i - 1)..last |-> H(h)[k]]
      OBVIOUS
    <3> HIDE DEF H
    <3> QED BY <2>4, <3>1, <3>2
  <2>6. Sum(h, o, i, last)
    <3> HIDE DEF h
    <3> QED BY <2>5 DEF Sum
  <2> QED BY <2>6
<1> HIDE DEF T
<1>3. m \in T
  BY <1>1, <1>2, Induct
<1> QED BY <1>3 DEF T

LEMMA SumUnique ==
  ASSUME NEW o, NEW i \in Nat \ {0}, NEW j \in Int, NEW m \in Int,
         NEW g, NEW h, Sum(g, o, i, j), Sum(h, o, i, m)
  PROVE  \A n \in Nat : (i - 1) + n <= j /\ (i - 1) + n <= m => g[(i - 1) + n] = h[(i - 1) + n]
<1> DEFINE T == {n \in Nat : (i - 1) + n <= j /\ (i - 1) + n <= m => g[(i - 1) + n] = h[(i - 1) + n]}
<1>1. 0 \in T
  <2>1. (i - 1) + 0 < i
    OBVIOUS
  <2> QED BY <2>1 DEF Sum
<1>2. ASSUME NEW n \in Nat, n \in T PROVE n + 1 \in T
  <2> SUFFICES ASSUME (i - 1) + (n + 1) <= j, (i - 1) + (n + 1) <= m
               PROVE  g[(i - 1) + (n + 1)] = h[(i - 1) + (n + 1)]
    OBVIOUS
  <2> DEFINE k == (i - 1) + (n + 1)
  <2>1. k \in (i - 1)..j /\ k \in (i - 1)..m /\ ~(k < i) /\ k - 1 = (i - 1) + n /\ k - 1 <= j /\ k - 1 <= m
    OBVIOUS
  <2>2. g[k - 1] = h[k - 1]
    BY <1>2, <2>1
  <2> HIDE DEF k
  <2>3. g[k] = g[k - 1] + o[k].len /\ h[k] = h[k - 1] + o[k].len
    BY <2>1 DEF Sum
  <2>4. g[k] = h[k]
    BY <2>2, <2>3
  <2> QED BY <2>4 DEF k
<1> HIDE DEF T
<1>3. \A n \in Nat : n \in T
  BY <1>1, <1>2, Induct
<1> QED BY <1>3 DEF T

LEMMA LengthSum ==
  ASSUME NEW o, NEW i \in Nat \ {0}, NEW j \in Nat, j >= i - 1
  PROVE  \E g : Sum(g, o, i, j) /\ LengthOf(o, i, j) = g[j]
<1> DEFINE g == CHOOSE f : f = [k \in (i - 1)..j |-> IF k < i THEN 0 ELSE f[k - 1] + o[k].len]
<1>1. \E f : Sum(f, o, i, j)
  <2>1. j - (i - 1) \in Nat /\ (i - 1) + (j - (i - 1)) = j
    OBVIOUS
  <2> QED BY <2>1, SumExists
<1>2. g = [k \in (i - 1)..j |-> IF k < i THEN 0 ELSE g[k - 1] + o[k].len]
  BY <1>1 DEF Sum
<1>3. LengthOf(o, i, j) = g[j]
  BY DEF LengthOf
<1> HIDE DEF g
<1>4. Sum(g, o, i, j)
  BY <1>2 DEF Sum
<1> QED BY <1>3, <1>4

LEMMA LengthNone ==
  ASSUME NEW o, NEW i \in Nat \ {0}
  PROVE  LengthOf(o, i, i - 1) = 0
<1>1. i - 1 \in Nat /\ i - 1 >= i - 1 /\ i - 1 < i
  OBVIOUS
<1>2. PICK g : Sum(g, o, i, i - 1) /\ LengthOf(o, i, i - 1) = g[i - 1]
  BY <1>1, LengthSum
<1> QED BY <1>1, <1>2 DEF Sum

LEMMA LengthMore ==
  ASSUME NEW o, NEW i \in Nat \ {0}, NEW j \in Nat, j >= i
  PROVE  LengthOf(o, i, j) = LengthOf(o, i, j - 1) + o[j].len
<1>1. j - 1 \in Nat /\ j - 1 >= i - 1 /\ j >= i - 1 /\ j - 1 <= j /\ ~(j < i) /\ j \in (i - 1)..j
  OBVIOUS
<1>2. PICK g : Sum(g, o, i, j) /\ LengthOf(o, i, j) = g[j]
  BY <1>1, LengthSum
<1>3. PICK h : Sum(h, o, i, j - 1) /\ LengthOf(o, i, j - 1) = h[j - 1]
  BY <1>1, LengthSum
<1>4. g[j] = g[j - 1] + o[j].len
  BY <1>1, <1>2 DEF Sum
<1>5. g[j - 1] = h[j - 1]
  <2>1. (j - 1) - (i - 1) \in Nat /\ (i - 1) + ((j - 1) - (i - 1)) = j - 1 /\ j - 1 <= j - 1
    BY <1>1
  <2>2. \A n \in Nat : (i - 1) + n <= j /\ (i - 1) + n <= j - 1 => g[(i - 1) + n] = h[(i - 1) + n]
    BY <1>1, <1>2, <1>3, SumUnique
  <2> QED BY <1>1, <2>1, <2>2
<1> QED BY <1>2, <1>3, <1>4, <1>5

(* The parts from 1 to j are those before i, and then those from i.         *)
LEMMA ReadOn ==
  ASSUME NEW o, NEW t, NEW i \in Nat \ {0}, NEW j \in Nat, j >= i - 1
  PROVE  ReadAll(o, ReadAll(o, t, 1, i - 1), i, j) = ReadAll(o, t, 1, j)
<1> DEFINE u == ReadAll(o, t, 1, i - 1)
           T == {n \in Nat : ReadAll(o, u, i, (i - 1) + n) = ReadAll(o, t, 1, (i - 1) + n)}
<1>1. 0 \in T
  <2>1. (i - 1) + 0 = i - 1
    OBVIOUS
  <2>2. ReadAll(o, u, i, i - 1) = u
    BY ReadNone
  <2> QED BY <2>1, <2>2
<1> HIDE DEF u
<1>2. ASSUME NEW n \in Nat, n \in T PROVE n + 1 \in T
  <2> DEFINE k == (i - 1) + (n + 1)
  <2>1. k \in Nat /\ k >= i /\ k >= 1 /\ k - 1 = (i - 1) + n
    OBVIOUS
  <2>2. ReadAll(o, u, i, k - 1) = ReadAll(o, t, 1, k - 1)
    BY <1>2, <2>1
  <2> HIDE DEF k
  <2>3. ReadAll(o, u, i, k) = Read(ReadAll(o, u, i, k - 1), o[k].kind)
    BY <2>1, ReadMore
  <2>4. ReadAll(o, t, 1, k) = Read(ReadAll(o, t, 1, k - 1), o[k].kind)
    <3>1. 1 \in Nat \ {0}
      OBVIOUS
    <3> QED BY <2>1, <3>1, ReadMore
  <2>5. ReadAll(o, u, i, k) = ReadAll(o, t, 1, k)
    BY <2>2, <2>3, <2>4
  <2> QED BY <2>5 DEF k
<1> HIDE DEF T
<1>3. j - (i - 1) \in Nat /\ (i - 1) + (j - (i - 1)) = j
  OBVIOUS
<1>4. j - (i - 1) \in T
  BY <1>1, <1>2, <1>3, Induct
<1> QED BY <1>3, <1>4 DEF T, u

(* The same is read of parts that are the same.                             *)
LEMMA ReadSame ==
  ASSUME NEW o, NEW p, NEW t, NEW i \in Nat \ {0}, NEW j \in Nat, j >= i - 1,
         \A k \in i..j : o[k].kind = p[k].kind
  PROVE  ReadAll(o, t, i, j) = ReadAll(p, t, i, j)
<1> DEFINE T == {n \in Nat : (i - 1) + n <= j => ReadAll(o, t, i, (i - 1) + n) = ReadAll(p, t, i, (i - 1) + n)}
<1>1. 0 \in T
  <2>1. (i - 1) + 0 = i - 1
    OBVIOUS
  <2>2. ReadAll(o, t, i, i - 1) = t /\ ReadAll(p, t, i, i - 1) = t
    BY ReadNone
  <2> QED BY <2>1, <2>2
<1>2. ASSUME NEW n \in Nat, n \in T PROVE n + 1 \in T
  <2> DEFINE k == (i - 1) + (n + 1)
  <2> SUFFICES ASSUME k <= j PROVE ReadAll(o, t, i, k) = ReadAll(p, t, i, k)
    OBVIOUS
  <2>1. k \in Nat /\ k >= i /\ k \in i..j /\ k - 1 = (i - 1) + n /\ k - 1 <= j
    OBVIOUS
  <2>2. ReadAll(o, t, i, k - 1) = ReadAll(p, t, i, k - 1)
    BY <1>2, <2>1
  <2> HIDE DEF k
  <2>3. ReadAll(o, t, i, k) = Read(ReadAll(o, t, i, k - 1), o[k].kind)
    BY <2>1, ReadMore
  <2>4. ReadAll(p, t, i, k) = Read(ReadAll(p, t, i, k - 1), p[k].kind)
    BY <2>1, ReadMore
  <2>5. o[k].kind = p[k].kind
    BY <2>1
  <2> QED BY <2>2, <2>3, <2>4, <2>5
<1> HIDE DEF T
<1>3. j - (i - 1) \in Nat /\ (i - 1) + (j - (i - 1)) = j /\ j <= j
  OBVIOUS
<1>4. j - (i - 1) \in T
  BY <1>1, <1>2, <1>3, Induct
<1> QED BY <1>3, <1>4 DEF T

(* The shape of an object: only its first part may be a list's header.      *)
IsObject(o) ==
  /\ o \in Seq([kind : AllKinds, len : Nat \ {0}, tail : Tails]) /\ Len(o) > 0
  /\ \A i \in 2..Len(o) : o[i].kind # "list"

LEMMA PartType ==
  ASSUME NEW o, IsObject(o), NEW k \in 1..Len(o)
  PROVE  o[k].len \in Nat /\ o[k].len > 0 /\ o[k].kind \in AllKinds
<1> DEFINE S == [kind : AllKinds, len : Nat \ {0}, tail : Tails]
<1>1. o \in Seq(S)
  BY DEF IsObject
<1>2. o[k] \in S
  <2> HIDE DEF S
  <2> QED BY <1>1
<1> QED BY <1>2

LEMMA LengthType ==
  ASSUME NEW o, IsObject(o), NEW i \in Nat \ {0}, NEW j \in Nat, i - 1 <= j, j <= Len(o)
  PROVE  LengthOf(o, i, j) \in Nat
<1> DEFINE T == {n \in Nat : (i - 1) + n <= Len(o) => LengthOf(o, i, (i - 1) + n) \in Nat}
<1>1. 0 \in T
  <2>1. (i - 1) + 0 = i - 1
    OBVIOUS
  <2> QED BY <2>1, LengthNone
<1>2. ASSUME NEW n \in Nat, n \in T PROVE n + 1 \in T
  <2> SUFFICES ASSUME (i - 1) + (n + 1) <= Len(o) PROVE LengthOf(o, i, (i - 1) + (n + 1)) \in Nat
    OBVIOUS
  <2> DEFINE k == (i - 1) + (n + 1)
  <2>1. k \in Nat /\ k >= i /\ k - 1 = (i - 1) + n /\ k \in 1..Len(o) /\ k - 1 <= Len(o)
    BY DEF IsObject
  <2>2. LengthOf(o, i, k - 1) \in Nat
    BY <1>2, <2>1
  <2> HIDE DEF k
  <2>3. o[k].len \in Nat
    BY <2>1, PartType
  <2>4. LengthOf(o, i, k) \in Nat
    <3>1. LengthOf(o, i, k) = LengthOf(o, i, k - 1) + o[k].len
      BY <2>1, LengthMore
    <3> QED BY <2>2, <2>3, <3>1
  <2> QED BY <2>4 DEF k
<1> HIDE DEF T
<1>3. j - (i - 1) \in Nat /\ (i - 1) + (j - (i - 1)) = j
  OBVIOUS
<1>4. j - (i - 1) \in T
  BY <1>1, <1>2, <1>3, Induct
<1> QED BY <1>3, <1>4 DEF T

LEMMA LengthOn ==
  ASSUME NEW o, IsObject(o), NEW i \in Nat \ {0}, NEW j \in Nat, i - 1 <= j, j <= Len(o)
  PROVE  LengthOf(o, 1, j) = LengthOf(o, 1, i - 1) + LengthOf(o, i, j)
<1> DEFINE T == {n \in Nat : (i - 1) + n <= Len(o) =>
                   LengthOf(o, 1, (i - 1) + n) = LengthOf(o, 1, i - 1) + LengthOf(o, i, (i - 1) + n)}
<1>0. Len(o) \in Nat
  BY DEF IsObject
<1>1. 0 \in T
  <2>1. (i - 1) + 0 = i - 1
    OBVIOUS
  <2>2. LengthOf(o, i, i - 1) = 0
    BY LengthNone
  <2>3. i - 1 <= Len(o) => LengthOf(o, 1, i - 1) \in Nat
    BY LengthType
  <2> QED BY <2>1, <2>2, <2>3
<1>2. ASSUME NEW n \in Nat, n \in T PROVE n + 1 \in T
  <2> DEFINE k == (i - 1) + (n + 1)
  <2> SUFFICES ASSUME k <= Len(o)
               PROVE  LengthOf(o, 1, k) = LengthOf(o, 1, i - 1) + LengthOf(o, i, k)
    OBVIOUS
  <2>1. /\ k \in Nat /\ k >= i /\ k >= 1 /\ k - 1 = (i - 1) + n /\ k \in 1..Len(o) /\ k - 1 <= Len(o)
        /\ i - 1 <= k - 1 /\ k - 1 \in Nat /\ i - 1 <= Len(o) /\ i - 1 \in Nat
    BY <1>0
  <2>2. LengthOf(o, 1, k - 1) = LengthOf(o, 1, i - 1) + LengthOf(o, i, k - 1)
    BY <1>2, <2>1
  <2> HIDE DEF k
  <2>3. o[k].len \in Nat
    BY <2>1, PartType
  <2>4. /\ LengthOf(o, 1, k) = LengthOf(o, 1, k - 1) + o[k].len
        /\ LengthOf(o, i, k) = LengthOf(o, i, k - 1) + o[k].len
    <3>1. 1 \in Nat \ {0}
      OBVIOUS
    <3> QED BY <2>1, <3>1, LengthMore
  <2>5. LengthOf(o, i, k - 1) \in Nat /\ LengthOf(o, 1, i - 1) \in Nat
    BY <2>1, LengthType
  <2> QED BY <2>2, <2>3, <2>4, <2>5
<1> HIDE DEF T
<1>3. j - (i - 1) \in Nat /\ (i - 1) + (j - (i - 1)) = j
  OBVIOUS
<1>4. j - (i - 1) \in T
  BY <1>1, <1>2, <1>3, Induct
<1> QED BY <1>3, <1>4 DEF T

LEMMA LengthGrows ==
  ASSUME NEW o, IsObject(o), NEW i \in Nat, NEW j \in Nat, i <= j, j <= Len(o)
  PROVE  LengthOf(o, 1, i) <= LengthOf(o, 1, j) /\ LengthOf(o, 1, i) \in Nat /\ LengthOf(o, 1, j) \in Nat
<1>1. i + 1 \in Nat \ {0} /\ (i + 1) - 1 = i /\ i <= Len(o) /\ Len(o) \in Nat
  BY DEF IsObject
<1>2. LengthOf(o, 1, j) = LengthOf(o, 1, i) + LengthOf(o, i + 1, j)
  BY <1>1, LengthOn
<1>3. LengthOf(o, i + 1, j) \in Nat /\ LengthOf(o, 1, i) \in Nat
  BY <1>1, LengthType
<1> QED BY <1>2, <1>3
-----------------------------------------------------------------------------
(* The tables of the parser; those that an attempt changes extend those it  *)
(* started from.                                                            *)
Tab(objects, next, symbols, cache, index, hits, misses, inBody) ==
  [objects |-> objects, next |-> next, symbols |-> symbols, cache |-> cache, index |-> index,
   hits |-> hits, misses |-> misses, inBody |-> inBody]

IsTable(t) ==
  /\ t = Tab(t.objects, t.next, t.symbols, t.cache, t.index, t.hits, t.misses, t.inBody)
  /\ t.objects = [i \in DOMAIN t.objects |-> t.objects[i]]
  /\ t.next \in Nat \ {0} /\ DOMAIN t.objects \subseteq 1..(t.next - 1)
  /\ t.symbols \in Seq(Nat) /\ t.cache \in Seq({"s", "x"})
  /\ \A e \in t.index : e[2] \in 1..Len(t.cache)

Below(f, n) == [i \in {j \in DOMAIN f : j < n} |-> f[i]]
Extends(t, s) ==
  /\ t.next >= s.next /\ Below(t.objects, s.next) = s.objects
  /\ Len(t.symbols) >= Len(s.symbols) /\ SubSeq(t.symbols, 1, Len(s.symbols)) = s.symbols
  /\ Len(t.cache) >= Len(s.cache) /\ SubSeq(t.cache, 1, Len(s.cache)) = s.cache
  /\ {e \in t.index : e[2] <= Len(s.cache)} = s.index

LEMMA Fields ==
  ASSUME NEW o, NEW n, NEW s, NEW c, NEW x, NEW h, NEW m, NEW b
  PROVE  /\ Tab(o, n, s, c, x, h, m, b).objects = o /\ Tab(o, n, s, c, x, h, m, b).next = n
         /\ Tab(o, n, s, c, x, h, m, b).symbols = s /\ Tab(o, n, s, c, x, h, m, b).cache = c
         /\ Tab(o, n, s, c, x, h, m, b).index = x /\ Tab(o, n, s, c, x, h, m, b).hits = h
         /\ Tab(o, n, s, c, x, h, m, b).misses = m /\ Tab(o, n, s, c, x, h, m, b).inBody = b
BY DEF Tab

(* One field of the tables changes.                                         *)
WithObjects(t, v)== [t EXCEPT !.objects = v]
WithNext(t, v)   == [t EXCEPT !.next = v]
WithSymbols(t, v)== [t EXCEPT !.symbols = v]
WithCache(t, v)  == [t EXCEPT !.cache = v]
WithIndex(t, v)  == [t EXCEPT !.index = v]
WithHits(t, v)   == [t EXCEPT !.hits = v]
WithMisses(t, v) == [t EXCEPT !.misses = v]
WithBody(t, v)   == [t EXCEPT !.inBody = v]

LEMMA Changed ==
  ASSUME NEW o, NEW n, NEW s, NEW c, NEW x, NEW h, NEW m, NEW b, NEW v
  PROVE  /\ WithObjects(Tab(o, n, s, c, x, h, m, b), v) = Tab(v, n, s, c, x, h, m, b)
         /\ WithNext(Tab(o, n, s, c, x, h, m, b), v) = Tab(o, v, s, c, x, h, m, b)
         /\ WithSymbols(Tab(o, n, s, c, x, h, m, b), v) = Tab(o, n, v, c, x, h, m, b)
         /\ WithCache(Tab(o, n, s, c, x, h, m, b), v) = Tab(o, n, s, v, x, h, m, b)
         /\ WithIndex(Tab(o, n, s, c, x, h, m, b), v) = Tab(o, n, s, c, v, h, m, b)
         /\ WithHits(Tab(o, n, s, c, x, h, m, b), v) = Tab(o, n, s, c, x, v, m, b)
         /\ WithMisses(Tab(o, n, s, c, x, h, m, b), v) = Tab(o, n, s, c, x, h, v, b)
         /\ WithBody(Tab(o, n, s, c, x, h, m, b), v) = Tab(o, n, s, c, x, h, m, v)
<1>1. WithObjects(Tab(o, n, s, c, x, h, m, b), v) = Tab(v, n, s, c, x, h, m, b)
  BY DEF Tab, WithObjects
<1>2. WithNext(Tab(o, n, s, c, x, h, m, b), v) = Tab(o, v, s, c, x, h, m, b)
  BY DEF Tab, WithNext
<1>3. WithSymbols(Tab(o, n, s, c, x, h, m, b), v) = Tab(o, n, v, c, x, h, m, b)
  BY DEF Tab, WithSymbols
<1>4. WithCache(Tab(o, n, s, c, x, h, m, b), v) = Tab(o, n, s, v, x, h, m, b)
  BY DEF Tab, WithCache
<1>5. WithIndex(Tab(o, n, s, c, x, h, m, b), v) = Tab(o, n, s, c, v, h, m, b)
  BY DEF Tab, WithIndex
<1>6. WithHits(Tab(o, n, s, c, x, h, m, b), v) = Tab(o, n, s, c, x, v, m, b)
  BY DEF Tab, WithHits
<1>7. WithMisses(Tab(o, n, s, c, x, h, m, b), v) = Tab(o, n, s, c, x, h, v, b)
  BY DEF Tab, WithMisses
<1>8. WithBody(Tab(o, n, s, c, x, h, m, b), v) = Tab(o, n, s, c, x, h, m, v)
  BY DEF Tab, WithBody
<1> QED BY <1>1, <1>2, <1>3, <1>4, <1>5, <1>6, <1>7, <1>8

LEMMA BeginTab ==
  ASSUME NEW o, NEW n, NEW s, NEW c, NEW x, NEW h, NEW m, NEW b, NEW kind
  PROVE  /\ kind \in {"environment", "symbol"} =>
              Begin(Tab(o, n, s, c, x, h, m, b), kind) = Tab(Bind(o, n, "null"), n + 1, s, c, x, h, m, b)
         /\ kind \notin {"environment", "symbol", "body"} =>
              Begin(Tab(o, n, s, c, x, h, m, b), kind) = Tab(o, n, s, c, x, h, m, b)
<1> DEFINE t == Tab(o, n, s, c, x, h, m, b)
<1>1. t.objects = o /\ t.next = n
  BY Fields
<1>2. CASE kind \in {"environment", "symbol"}
  <2> HIDE DEF t
  <2>1. Begin(t, kind) = [t EXCEPT !.objects = Bind(t.objects, t.next, "null"), !.next = t.next + 1]
    BY <1>2 DEF Begin
  <2>2. Begin(t, kind) = WithNext(WithObjects(t, Bind(o, n, "null")), n + 1)
    BY <1>1, <2>1 DEF WithNext, WithObjects
  <2>3. WithNext(WithObjects(t, Bind(o, n, "null")), n + 1) = Tab(Bind(o, n, "null"), n + 1, s, c, x, h, m, b)
    BY Changed DEF t
  <2> QED BY <1>2, <2>2, <2>3 DEF t
<1>3. CASE kind = "body"
  BY <1>3
<1>4. CASE kind \notin {"environment", "symbol", "body"}
  BY <1>4 DEF Begin
<1> QED BY <1>2, <1>3, <1>4

LEMMA BodyTab ==
  ASSUME NEW t
  PROVE  Begin(t, "body") = WithBody(t, TRUE) /\ End(t, "body") = WithBody(t, FALSE)
<1>1. Begin(t, "body") = WithBody(t, TRUE)
  BY DEF Begin, WithBody
<1>2. End(t, "body") = WithBody(t, FALSE)
  BY DEF End, WithBody
<1> QED BY <1>1, <1>2

LEMMA DeduplicateTab ==
  ASSUME NEW o, NEW n, NEW s, NEW c, NEW x, NEW h, NEW m, NEW b
  PROVE  \/ Deduplicate(Tab(o, n, s, c, x, h, m, b)) = Tab(o, n, s, c, x, h + 1, m, b)
         \/ Deduplicate(Tab(o, n, s, c, x, h, m, b)) =
              Tab(o, n, s, Append(c, "s"), x \cup {<<"s", Len(c) + 1>>}, h, m + 1, b)
<1> DEFINE t == Tab(o, n, s, c, x, h, m, b)
           c2 == Append(c, "s")
           x2 == x \cup {<<"s", Len(c) + 1>>}
           seen == \E e \in t.index : e[1] = "s" /\ e[2] \in DOMAIN t.cache /\ t.cache[e[2]] = "s"
<1>1. t.cache = c /\ t.index = x /\ t.hits = h /\ t.misses = m
  BY Fields
<1> HIDE DEF t
<1>2. Deduplicate(t) =
        IF seen THEN [t EXCEPT !.hits = t.hits + 1]
        ELSE [t EXCEPT !.misses = t.misses + 1, !.cache = Append(t.cache, "s"),
                       !.index = t.index \cup {<<"s", Len(t.cache) + 1>>}]
  BY DEF Deduplicate
<1> HIDE DEF seen
<1>3. CASE seen
  <2>1. Deduplicate(t) = WithHits(t, h + 1)
    BY <1>1, <1>2, <1>3 DEF WithHits
  <2>2. WithHits(t, h + 1) = Tab(o, n, s, c, x, h + 1, m, b)
    BY Changed DEF t
  <2> QED BY <2>1, <2>2 DEF t
<1>4. CASE ~seen
  <2>1. Deduplicate(t) = WithIndex(WithCache(WithMisses(t, m + 1), c2), x2)
    BY <1>1, <1>2, <1>4 DEF WithMisses, WithCache, WithIndex
  <2> HIDE DEF c2, x2
  <2>2. WithIndex(WithCache(WithMisses(t, m + 1), c2), x2) = Tab(o, n, s, c2, x2, h, m + 1, b)
    BY Changed DEF t
  <2> QED BY <2>1, <2>2 DEF t, c2, x2
<1> QED BY <1>3, <1>4

LEMMA EndTab ==
  ASSUME NEW o, NEW n, NEW s, NEW c, NEW x, NEW h, NEW m, NEW b, NEW kind
  PROVE  LET t == Tab(o, n, s, c, x, h, m, b)
             f == [o EXCEPT ![n - 1] = kind]
         IN /\ kind = "environment" => End(t, kind) = Tab(f, n, s, c, x, h, m, b)
            /\ kind = "symbol" => End(t, kind) = Tab(f, n, Append(s, n - 1), c, x, h, m, b)
<1> DEFINE t == Tab(o, n, s, c, x, h, m, b)
           f == [o EXCEPT ![n - 1] = kind]
           s2 == Append(s, n - 1)
<1>1. t.objects = o /\ t.next = n /\ t.symbols = s
  BY Fields
<1>2. ASSUME kind = "environment" PROVE End(t, kind) = Tab(f, n, s, c, x, h, m, b)
  <2> HIDE DEF t
  <2>1. End(t, kind) = [t EXCEPT !.objects = [t.objects EXCEPT ![t.next - 1] = kind]]
    BY <1>2 DEF End
  <2>2. End(t, kind) = WithObjects(t, f)
    BY <1>1, <2>1 DEF WithObjects
  <2> HIDE DEF f
  <2>3. WithObjects(t, f) = Tab(f, n, s, c, x, h, m, b)
    BY Changed DEF t
  <2> QED BY <2>2, <2>3
<1>3. ASSUME kind = "symbol" PROVE End(t, kind) = Tab(f, n, s2, c, x, h, m, b)
  <2> HIDE DEF t
  <2>1. End(t, kind) = [t EXCEPT !.objects = [t.objects EXCEPT ![t.next - 1] = kind],
                                 !.symbols = Append(t.symbols, t.next - 1)]
    BY <1>3 DEF End
  <2>2. End(t, kind) = WithSymbols(WithObjects(t, f), s2)
    BY <1>1, <2>1 DEF WithObjects, WithSymbols
  <2> HIDE DEF f, s2
  <2>3. WithSymbols(WithObjects(t, f), s2) = Tab(f, n, s2, c, x, h, m, b)
    BY Changed DEF t
  <2> QED BY <2>2, <2>3
<1> QED BY <1>2, <1>3

LEMMA EndElse ==
  ASSUME NEW t, NEW kind
  PROVE  /\ kind = "string" => End(t, kind) = Deduplicate(t)
         /\ kind \notin {"environment", "symbol", "string", "body"} => End(t, kind) = t
BY DEF End

LEMMA PutBackTab ==
  ASSUME NEW t, NEW s, IsTable(t)
  PROVE  PutBack(t, s) = Tab(Below(t.objects, s.next), s.next, SubSeq(t.symbols, 1, Len(s.symbols)),
                             SubSeq(t.cache, 1, Len(s.cache)), {e \in t.index : e[2] <= Len(s.cache)},
                             s.hits, s.misses, s.inBody)
<1> DEFINE f == Below(t.objects, s.next)
           y == SubSeq(t.symbols, 1, Len(s.symbols))
           c == SubSeq(t.cache, 1, Len(s.cache))
           x == {e \in t.index : e[2] <= Len(s.cache)}
           o0 == t.objects
           n0 == t.next
           y0 == t.symbols
           c0 == t.cache
           x0 == t.index
           h0 == t.hits
           m0 == t.misses
           b0 == t.inBody
           t1 == Tab(f, n0, y0, c0, x0, h0, m0, b0)
           t2 == Tab(f, s.next, y0, c0, x0, h0, m0, b0)
           t3 == Tab(f, s.next, y, c0, x0, h0, m0, b0)
           t4 == Tab(f, s.next, y, c, x, s.hits, s.misses, b0)
<1>1. t = Tab(o0, n0, y0, c0, x0, h0, m0, b0)
  BY DEF IsTable
<1>2. RollbackRefsNextKept(t, s) = t1
  <2>1. RollbackRefsNextKept(t, s) = WithObjects(t, f)
    BY DEF RollbackRefsNextKept, WithObjects, Below
  <2> HIDE DEF f, o0, n0, y0, c0, x0, h0, m0, b0
  <2> QED BY <1>1, <2>1, Changed
<1>3. RollbackRefs(t, s) = t2
  <2>1. RollbackRefs(t, s) = WithNext(t1, s.next)
    <3> HIDE DEF t1
    <3> QED BY <1>2 DEF RollbackRefs, WithNext
  <2> HIDE DEF f, o0, n0, y0, c0, x0, h0, m0, b0
  <2> QED BY <2>1, Changed
<1>4. RollbackSymbols(t2, s) = t3
  <2>1. t2.symbols = y0
    <3> HIDE DEF f, o0, n0, y0, c0, x0, h0, m0, b0
    <3> QED BY Fields
  <2>2. RollbackSymbols(t2, s) = WithSymbols(t2, y)
    <3> HIDE DEF t2
    <3> QED BY <2>1 DEF RollbackSymbols, WithSymbols
  <2> HIDE DEF f, y, o0, n0, y0, c0, x0, h0, m0, b0
  <2> QED BY <2>2, Changed
<1>5. RollbackDedup(t3, s) = t4
  <2>1. t3.cache = c0 /\ t3.index = x0
    <3> HIDE DEF f, y, o0, n0, y0, c0, x0, h0, m0, b0
    <3> QED BY Fields
  <2>2. RollbackDedup(t3, s) = WithMisses(WithHits(WithIndex(WithCache(t3, c), x), s.hits), s.misses)
    <3> HIDE DEF t3
    <3> QED BY <2>1 DEF RollbackDedup, WithCache, WithIndex, WithHits, WithMisses
  <2> HIDE DEF f, y, c, x, o0, n0, y0, c0, x0, h0, m0, b0
  <2>3. WithIndex(WithCache(t3, c), x) = Tab(f, s.next, y, c, x, h0, m0, b0)
    BY Changed
  <2> QED BY <2>2, <2>3, Changed
<1>6. Restore(t4, s) = Tab(f, s.next, y, c, x, s.hits, s.misses, s.inBody)
  <2>1. Restore(t4, s) = WithBody(t4, s.inBody)
    BY DEF Restore, WithBody
  <2> HIDE DEF f, y, c, x, o0, n0, y0, c0, x0, h0, m0, b0
  <2> QED BY <2>1, Changed
<1> HIDE DEF t1, t2, t3, t4, f, y, c, x
<1>7. PutBack(t, s) = Tab(f, s.next, y, c, x, s.hits, s.misses, s.inBody)
  BY <1>3, <1>4, <1>5, <1>6 DEF PutBack
<1> QED BY <1>7 DEF f, y, c, x

(* Putting back what was saved undoes all that was added since.             *)
LEMMA PutsBack ==
  ASSUME NEW t, NEW s, IsTable(t), IsTable(s), Extends(t, s)
  PROVE  PutBack(t, s) = s
<1>1. /\ Below(t.objects, s.next) = s.objects
      /\ SubSeq(t.symbols, 1, Len(s.symbols)) = s.symbols
      /\ SubSeq(t.cache, 1, Len(s.cache)) = s.cache
      /\ {e \in t.index : e[2] <= Len(s.cache)} = s.index
  BY DEF Extends
<1>2. PutBack(t, s) = Tab(s.objects, s.next, s.symbols, s.cache, s.index, s.hits, s.misses, s.inBody)
  BY <1>1, PutBackTab
<1> QED BY <1>2 DEF IsTable

LEMMA TabIs ==
  ASSUME NEW o, NEW n, NEW s, NEW c, NEW x, NEW h, NEW m, NEW b,
         o = [i \in DOMAIN o |-> o[i]], n \in Nat \ {0}, DOMAIN o \subseteq 1..(n - 1),
         s \in Seq(Nat), c \in Seq({"s", "x"}), \A e \in x : e[2] \in 1..Len(c)
  PROVE  IsTable(Tab(o, n, s, c, x, h, m, b))
<1> DEFINE t == Tab(o, n, s, c, x, h, m, b)
<1>1. /\ t.objects = o /\ t.next = n /\ t.symbols = s /\ t.cache = c /\ t.index = x
      /\ t.hits = h /\ t.misses = m /\ t.inBody = b
  BY Fields
<1>2. t = Tab(t.objects, t.next, t.symbols, t.cache, t.index, t.hits, t.misses, t.inBody)
  BY <1>1
<1> HIDE DEF t
<1>3. IsTable(t)
  BY <1>1, <1>2 DEF IsTable
<1> QED BY <1>3 DEF t

LEMMA TabExtends ==
  ASSUME NEW o, NEW n, NEW s, NEW c, NEW x, NEW h, NEW m, NEW b, NEW u,
         n >= u.next, Below(o, u.next) = u.objects,
         Len(s) >= Len(u.symbols), SubSeq(s, 1, Len(u.symbols)) = u.symbols,
         Len(c) >= Len(u.cache), SubSeq(c, 1, Len(u.cache)) = u.cache,
         {e \in x : e[2] <= Len(u.cache)} = u.index
  PROVE  Extends(Tab(o, n, s, c, x, h, m, b), u)
<1> DEFINE t == Tab(o, n, s, c, x, h, m, b)
<1>1. t.objects = o /\ t.next = n /\ t.symbols = s /\ t.cache = c /\ t.index = x
  BY Fields
<1> HIDE DEF t
<1>2. Extends(t, u)
  BY <1>1 DEF Extends
<1> QED BY <1>2 DEF t

LEMMA StillPrefix ==
  ASSUME NEW S, NEW q \in Seq(S), NEW v \in S, NEW n \in Nat, n <= Len(q)
  PROVE  /\ Append(q, v) \in Seq(S) /\ Len(Append(q, v)) = Len(q) + 1
         /\ SubSeq(Append(q, v), 1, n) = SubSeq(q, 1, n)
<1> DEFINE p == Append(q, v)
<1>1. p \in Seq(S) /\ Len(p) = Len(q) + 1 /\ (\A i \in 1..Len(q) : p[i] = q[i]) /\ Len(q) \in Nat
  BY AppendProperties
<1> HIDE DEF p
<1>2. n <= Len(p)
  BY <1>1
<1>3. SubSeq(p, 1, n) = [i \in 1..n |-> p[i]] /\ SubSeq(q, 1, n) = [i \in 1..n |-> q[i]]
  BY <1>1, <1>2
<1>4. \A i \in 1..n : p[i] = q[i]
  BY <1>1
<1> QED BY <1>1, <1>3, <1>4 DEF p

LEMMA BelowEqual ==
  ASSUME NEW o, NEW g, NEW m, {j \in DOMAIN g : j < m} = {j \in DOMAIN o : j < m},
         \A j \in {i \in DOMAIN o : i < m} : g[j] = o[j]
  PROVE  Below(g, m) = Below(o, m)
BY DEF Below

LEMMA BelowBind ==
  ASSUME NEW o, NEW n \in Nat, NEW m \in Nat, NEW v, m <= n, DOMAIN o \subseteq Nat
  PROVE  Below(Bind(o, n, v), m) = Below(o, m)
<1> DEFINE g == Bind(o, n, v)
<1>1. DOMAIN g = DOMAIN o \cup {n} /\ \A j \in DOMAIN o : j # n => g[j] = o[j]
  BY DEF Bind
<1> HIDE DEF g
<1>2. {j \in DOMAIN g : j < m} = {j \in DOMAIN o : j < m} /\ \A j \in {i \in DOMAIN o : i < m} : g[j] = o[j]
  BY <1>1
<1>3. Below(g, m) = Below(o, m)
  BY <1>2, BelowEqual
<1> QED BY <1>3 DEF g

LEMMA BelowExcept ==
  ASSUME NEW o, NEW k \in Nat, NEW m \in Nat, NEW v, m <= k, DOMAIN o \subseteq Nat
  PROVE  Below([o EXCEPT ![k] = v], m) = Below(o, m)
<1> DEFINE g == [o EXCEPT ![k] = v]
<1>1. DOMAIN g = DOMAIN o /\ \A j \in DOMAIN o : j # k => g[j] = o[j]
  OBVIOUS
<1> HIDE DEF g
<1>2. {j \in DOMAIN g : j < m} = {j \in DOMAIN o : j < m} /\ \A j \in {i \in DOMAIN o : i < m} : g[j] = o[j]
  BY <1>1
<1>3. Below(g, m) = Below(o, m)
  BY <1>2, BelowEqual
<1> QED BY <1>3 DEF g

(* What the parser does with a part extends the tables.                     *)
LEMMA BeginExtends ==
  ASSUME NEW t, NEW s, IsTable(t), IsTable(s), Extends(t, s), NEW kind
  PROVE  /\ IsTable(Begin(t, kind)) /\ Extends(Begin(t, kind), s)
         /\ kind \in {"environment", "symbol"} => Begin(t, kind).next = t.next + 1
<1> DEFINE o == t.objects
           n == t.next
           y == t.symbols
           c == t.cache
           x == t.index
           h == t.hits
           m == t.misses
           b == t.inBody
           w == Bind(o, n, "null")
<1>1. t = Tab(o, n, y, c, x, h, m, b)
  BY DEF IsTable
<1>2. /\ o = [i \in DOMAIN o |-> o[i]] /\ n \in Nat \ {0} /\ DOMAIN o \subseteq 1..(n - 1)
      /\ y \in Seq(Nat) /\ c \in Seq({"s", "x"}) /\ (\A e \in x : e[2] \in 1..Len(c))
  BY DEF IsTable
<1>3. /\ n >= s.next /\ Below(o, s.next) = s.objects
      /\ Len(y) >= Len(s.symbols) /\ SubSeq(y, 1, Len(s.symbols)) = s.symbols
      /\ Len(c) >= Len(s.cache) /\ SubSeq(c, 1, Len(s.cache)) = s.cache
      /\ {e \in x : e[2] <= Len(s.cache)} = s.index
  BY DEF Extends
<1>4. s.next \in Nat
  BY DEF IsTable
<1> HIDE DEF o, n, y, c, x, h, m, b
<1>5. CASE kind \in {"environment", "symbol"}
  <2>1. Begin(t, kind) = Tab(w, n + 1, y, c, x, h, m, b)
    BY <1>1, <1>5, BeginTab
  <2>2. w = [i \in DOMAIN w |-> w[i]] /\ DOMAIN w \subseteq 1..((n + 1) - 1) /\ n + 1 \in Nat \ {0} /\ n + 1 >= s.next
    <3>1. DOMAIN w = DOMAIN o \cup {n}
      BY DEF Bind
    <3>2. w = [i \in DOMAIN w |-> w[i]]
      BY DEF Bind
    <3>3. 1..(n - 1) \subseteq 1..((n + 1) - 1) /\ n \in 1..((n + 1) - 1)
      BY <1>2
    <3>4. n + 1 \in Nat \ {0} /\ n + 1 >= s.next
      BY <1>2, <1>3, <1>4
    <3> HIDE DEF w
    <3> QED BY <1>2, <3>1, <3>2, <3>3, <3>4
  <2>3. Below(w, s.next) = s.objects
    <3>1. n \in Nat /\ DOMAIN o \subseteq Nat /\ s.next <= n
      BY <1>2, <1>3, <1>4
    <3> QED BY <1>3, <1>4, <3>1, BelowBind
  <2> HIDE DEF w
  <2>4. IsTable(Tab(w, n + 1, y, c, x, h, m, b))
    BY <1>2, <2>2, TabIs
  <2>5. Extends(Tab(w, n + 1, y, c, x, h, m, b), s)
    BY <1>3, <2>2, <2>3, TabExtends
  <2>6. Tab(w, n + 1, y, c, x, h, m, b).next = n + 1
    BY Fields
  <2> QED BY <2>1, <2>4, <2>5, <2>6 DEF n
<1>6. CASE kind = "body"
  <2>1. Begin(t, kind) = WithBody(t, TRUE)
    BY <1>6, BodyTab, Zenon
  <2>4. \A v : WithBody(t, v) = Tab(o, n, y, c, x, h, m, v)
    BY <1>1, Changed
  <2>2. \A v : IsTable(Tab(o, n, y, c, x, h, m, v)) /\ Extends(Tab(o, n, y, c, x, h, m, v), s)
    BY <1>2, <1>3, TabIs, TabExtends
  <2>3. IsTable(Begin(t, kind)) /\ Extends(Begin(t, kind), s)
    <3>1. \A v : IsTable(WithBody(t, v)) /\ Extends(WithBody(t, v), s)
      BY <2>2, <2>4
    <3> QED BY <2>1, <3>1, Zenon
  <2> QED BY <1>6, <2>3
<1>7. CASE kind \notin {"environment", "symbol", "body"}
  <2>1. Begin(t, kind) = t
    BY <1>1, <1>7, BeginTab
  <2> QED BY <1>7, <2>1
<1> QED BY <1>5, <1>6, <1>7

LEMMA ReadExtends ==
  ASSUME NEW t, NEW s, IsTable(t), IsTable(s), Extends(t, s), NEW kind
  PROVE  IsTable(Read(t, kind)) /\ Extends(Read(t, kind), s)
<1> DEFINE u == Begin(t, kind)
           o == u.objects
           n == u.next
           y == u.symbols
           c == u.cache
           x == u.index
           h == u.hits
           m == u.misses
           b == u.inBody
<1>1. /\ IsTable(u) /\ Extends(u, s) /\ Read(t, kind) = End(u, kind)
      /\ kind \in {"environment", "symbol"} => n = t.next + 1
  BY BeginExtends DEF Read
<1> HIDE DEF u
<1>2. u = Tab(o, n, y, c, x, h, m, b)
  BY <1>1 DEF IsTable
<1>3. /\ o = [i \in DOMAIN o |-> o[i]] /\ n \in Nat \ {0} /\ DOMAIN o \subseteq 1..(n - 1)
      /\ y \in Seq(Nat) /\ c \in Seq({"s", "x"}) /\ (\A e \in x : e[2] \in 1..Len(c))
  BY <1>1 DEF IsTable
<1>4. /\ n >= s.next /\ Below(o, s.next) = s.objects
      /\ Len(y) >= Len(s.symbols) /\ SubSeq(y, 1, Len(s.symbols)) = s.symbols
      /\ Len(c) >= Len(s.cache) /\ SubSeq(c, 1, Len(s.cache)) = s.cache
      /\ {e \in x : e[2] <= Len(s.cache)} = s.index
  BY <1>1 DEF Extends
<1>5. s.next \in Nat /\ s.symbols \in Seq(Nat) /\ s.cache \in Seq({"s", "x"})
  BY DEF IsTable
<1>6. Len(s.symbols) \in Nat /\ Len(s.cache) \in Nat /\ Len(y) \in Nat /\ Len(c) \in Nat
  BY <1>3, <1>5
<1>7. t.next \in Nat /\ t.next >= s.next
  BY DEF IsTable, Extends
<1> HIDE DEF o, n, y, c, x, h, m, b
<1> DEFINE f == [o EXCEPT ![n - 1] = kind]
<1>8. /\ f = [i \in DOMAIN f |-> f[i]] /\ DOMAIN f \subseteq 1..(n - 1)
  BY <1>3
<1>9. ASSUME kind \in {"environment", "symbol"} PROVE Below(f, s.next) = s.objects /\ n - 1 \in Nat
  <2>1. n - 1 \in Nat /\ s.next <= n - 1 /\ DOMAIN o \subseteq Nat
    BY <1>1, <1>3, <1>5, <1>7, <1>9
  <2>2. Below(f, s.next) = Below(o, s.next)
    BY <1>5, <2>1, BelowExcept
  <2> QED BY <1>4, <2>1, <2>2
<1> HIDE DEF f
<1>10. CASE kind = "environment"
  <2>1. End(u, kind) = Tab(f, n, y, c, x, h, m, b)
    BY <1>2, <1>10, EndTab DEF f
  <2>2. IsTable(Tab(f, n, y, c, x, h, m, b))
    BY <1>3, <1>8, TabIs
  <2>3. Extends(Tab(f, n, y, c, x, h, m, b), s)
    BY <1>4, <1>9, <1>10, TabExtends
  <2> QED BY <1>1, <2>1, <2>2, <2>3
<1>11. CASE kind = "symbol"
  <2> DEFINE z == Append(y, n - 1)
  <2>1. End(u, kind) = Tab(f, n, z, c, x, h, m, b)
    BY <1>2, <1>11, EndTab DEF f
  <2>2. z \in Seq(Nat) /\ Len(z) >= Len(s.symbols) /\ SubSeq(z, 1, Len(s.symbols)) = s.symbols
    <3>1. z \in Seq(Nat) /\ Len(z) = Len(y) + 1 /\ SubSeq(z, 1, Len(s.symbols)) = SubSeq(y, 1, Len(s.symbols))
      BY <1>3, <1>4, <1>6, <1>9, <1>11, StillPrefix
    <3> HIDE DEF z
    <3> QED BY <1>4, <1>6, <3>1
  <2> HIDE DEF z
  <2>3. IsTable(Tab(f, n, z, c, x, h, m, b))
    BY <1>3, <1>8, <2>2, TabIs
  <2>4. Extends(Tab(f, n, z, c, x, h, m, b), s)
    BY <1>4, <1>9, <1>11, <2>2, TabExtends
  <2> QED BY <1>1, <2>1, <2>3, <2>4
<1>12. CASE kind = "string"
  <2> DEFINE d == Append(c, "s")
             v == x \cup {<<"s", Len(c) + 1>>}
  <2>1. End(u, kind) = Deduplicate(Tab(o, n, y, c, x, h, m, b))
    BY <1>2, <1>12, EndElse
  <2>2. End(u, kind) = Tab(o, n, y, c, x, h + 1, m, b) \/ End(u, kind) = Tab(o, n, y, d, v, h, m + 1, b)
    BY <2>1, DeduplicateTab
  <2>3. d \in Seq({"s", "x"}) /\ Len(d) = Len(c) + 1 /\ SubSeq(d, 1, Len(s.cache)) = SubSeq(c, 1, Len(s.cache))
    BY <1>3, <1>4, <1>6, StillPrefix
  <2> HIDE DEF d
  <2>4. Len(d) >= Len(s.cache) /\ SubSeq(d, 1, Len(s.cache)) = s.cache
    BY <1>4, <1>6, <2>3
  <2>5. \A e \in v : e[2] \in 1..Len(d)
    BY <1>3, <1>6, <2>3
  <2>6. {e \in v : e[2] <= Len(s.cache)} = s.index
    BY <1>4, <1>6
  <2> HIDE DEF v
  <2>7. IsTable(Tab(o, n, y, c, x, h + 1, m, b)) /\ IsTable(Tab(o, n, y, d, v, h, m + 1, b))
    <3>1. IsTable(Tab(o, n, y, c, x, h + 1, m, b))
      BY <1>3, TabIs
    <3>2. IsTable(Tab(o, n, y, d, v, h, m + 1, b))
      BY <1>3, <2>3, <2>5, TabIs
    <3> QED BY <3>1, <3>2
  <2>8. Extends(Tab(o, n, y, c, x, h + 1, m, b), s) /\ Extends(Tab(o, n, y, d, v, h, m + 1, b), s)
    <3>1. Extends(Tab(o, n, y, c, x, h + 1, m, b), s)
      BY <1>4, TabExtends
    <3>2. Extends(Tab(o, n, y, d, v, h, m + 1, b), s)
      BY <1>4, <2>4, <2>6, TabExtends
    <3> QED BY <3>1, <3>2
  <2> QED BY <1>1, <2>2, <2>7, <2>8
<1>13. CASE kind = "body"
  <2>1. \A k : WithBody(u, k) = Tab(o, n, y, c, x, h, m, k)
    BY <1>2, Changed
  <2>2. \A k : IsTable(Tab(o, n, y, c, x, h, m, k)) /\ Extends(Tab(o, n, y, c, x, h, m, k), s)
    BY <1>3, <1>4, TabIs, TabExtends
  <2>3. \A k : IsTable(WithBody(u, k)) /\ Extends(WithBody(u, k), s)
    BY <2>1, <2>2
  <2>4. End(u, kind) = WithBody(u, FALSE)
    BY <1>13, BodyTab, Zenon
  <2>5. IsTable(End(u, kind)) /\ Extends(End(u, kind), s)
    BY <2>3, <2>4, Zenon
  <2> QED BY <1>1, <2>5
<1>14. CASE kind \notin {"environment", "symbol", "string", "body"}
  <2>1. End(u, kind) = u
    BY <1>14, EndElse
  <2> QED BY <1>1, <2>1
<1> QED BY <1>10, <1>11, <1>12, <1>13, <1>14

LEMMA ExtendsItself == ASSUME NEW t, IsTable(t) PROVE Extends(t, t)
<1>1. /\ t.objects = [i \in DOMAIN t.objects |-> t.objects[i]]
      /\ t.next \in Nat \ {0} /\ DOMAIN t.objects \subseteq 1..(t.next - 1)
      /\ t.symbols \in Seq(Nat) /\ t.cache \in Seq({"s", "x"})
      /\ \A e \in t.index : e[2] \in 1..Len(t.cache)
  BY DEF IsTable
<1>2. {j \in DOMAIN t.objects : j < t.next} = DOMAIN t.objects
  BY <1>1
<1>3. Below(t.objects, t.next) = t.objects
  BY <1>1, <1>2 DEF Below
<1>4. ASSUME NEW S, NEW q \in Seq(S) PROVE SubSeq(q, 1, Len(q)) = q /\ Len(q) \in Nat
  <2>1. SubSeq(q, 1, Len(q)) \in Seq(S) /\ Len(SubSeq(q, 1, Len(q))) = Len(q)
        /\ \A i \in 1..Len(q) : SubSeq(q, 1, Len(q))[i] = q[i]
    OBVIOUS
  <2> QED BY <2>1, SeqEqual
<1>5. SubSeq(t.symbols, 1, Len(t.symbols)) = t.symbols /\ SubSeq(t.cache, 1, Len(t.cache)) = t.cache
      /\ Len(t.symbols) \in Nat /\ Len(t.cache) \in Nat
  BY <1>1, <1>4
<1>6. {e \in t.index : e[2] <= Len(t.cache)} = t.index
  BY <1>1, <1>5
<1> QED BY <1>1, <1>3, <1>5, <1>6 DEF Extends

LEMMA EarlierIs == IsTable(Earlier)
<1> DEFINE o == <<"symbol">>
           s == <<1>>
           c == <<"x">>
           x == {<<"x", 1>>}
<1>1. \A b : [objects |-> o, next |-> 2, symbols |-> s, cache |-> c, index |-> x,
              hits |-> 0, misses |-> 1, inBody |-> b] = Tab(o, 2, s, c, x, 0, 1, b)
  BY DEF Tab
<1>2. o = [i \in DOMAIN o |-> o[i]] /\ DOMAIN o \subseteq 1..(2 - 1) /\ 2 \in Nat \ {0}
  OBVIOUS
<1>3. s \in Seq(Nat) /\ c \in Seq({"s", "x"}) /\ \A e \in x : e[2] \in 1..Len(c)
  OBVIOUS
<1> HIDE DEF o, s, c, x
<1>4. \A b : IsTable(Tab(o, 2, s, c, x, 0, 1, b))
  BY <1>2, <1>3, TabIs
<1>5. \A b : IsTable([objects |-> o, next |-> 2, symbols |-> s, cache |-> c, index |-> x,
                      hits |-> 0, misses |-> 1, inBody |-> b])
  BY <1>1, <1>4, Zenon
<1> QED BY <1>5, Zenon DEF Earlier, o, s, c, x
-----------------------------------------------------------------------------
(* The inductive invariant.  At the call's start all parts before it have   *)
(* been passed; an attempt has passed those before its part, and extends the*)
(* tables that were saved, so that they can be put back.  What the          *)
(* sequential parser has read lies before the call.                         *)
N         == Len(input.parts)
Passed(j) == ReadAll(Taken(bare), Earlier, 1, j)
Upto(j)   == LengthOf(input.parts, 1, j)
Active    == pc \in {"open", "window", "parse", "retry"}

Shape ==
  /\ IsObject(input.parts) /\ input.given \in Nat /\ N \in Nat
  /\ call.first \in 1..N /\ call.last \in call.first..N
  /\ Active /\ call.first = 1 => call.last = N
  /\ Active => bare \subseteq 1..(call.first - 1)
  /\ pc = "children" => bare \subseteq 1..call.last
  /\ input.known => call.first = 1 /\ pc # "children"

Places ==
  /\ Active => pos = Upto(call.first - 1)
  /\ pc \in {"open", "window"} => tables = Passed(call.first - 1)
  /\ pc \in {"window", "parse", "retry"} => size \in Nat \ {0} /\ (input.known => size <= MaxSize)
  /\ pc = "children" => \E n \in 1..call.last :
                          /\ tables = Passed(n) /\ pos = Upto(n)
                          /\ n = call.last \/ (call.last = N /\ Absent(n + 1))
  /\ pc = "done" => \E n \in 1..N : tables = Passed(n) /\ pos = Upto(n) /\ Absent(n + 1)

Attempt ==
  /\ pc \in {"parse", "retry"} =>
       /\ saved = Passed(call.first - 1) /\ IsTable(tables) /\ Extends(tables, saved)
       /\ part \in call.first..(call.last + 1) /\ off = LengthOf(input.parts, call.first, part - 1)
  /\ pc = "parse" => tables = Passed(part - 1)
  /\ pc = "retry" => part <= call.last /\ off + input.parts[part].len > size

RetryInv == Shape /\ Places /\ Attempt /\ FitsMeansParsed

LEMMA PassedIs == ASSUME NEW j \in Nat PROVE IsTable(Passed(j))
<1> DEFINE T == {n \in Nat : IsTable(Passed(n))}
<1>1. 0 \in T
  <2>1. 1 \in Nat \ {0} /\ 1 - 1 = 0
    OBVIOUS
  <2>2. Passed(0) = Earlier
    BY <2>1, ReadNone DEF Passed
  <2> QED BY <2>2, EarlierIs
<1>2. ASSUME NEW n \in Nat, n \in T PROVE n + 1 \in T
  <2>1. 1 \in Nat \ {0} /\ n + 1 \in Nat /\ n + 1 >= 1 /\ (n + 1) - 1 = n
    OBVIOUS
  <2>2. Passed(n + 1) = Read(Passed(n), Taken(bare)[n + 1].kind)
    BY <2>1, ReadMore DEF Passed
  <2>3. IsTable(Passed(n)) /\ Extends(Passed(n), Passed(n))
    BY <1>2, ExtendsItself
  <2>4. IsTable(Passed(n + 1))
    BY <2>2, <2>3, ReadExtends
  <2> QED BY <2>4
<1> HIDE DEF T
<1>3. j \in T
  BY <1>1, <1>2, Induct
<1> QED BY <1>3 DEF T

LEMMA PassedMore ==
  ASSUME NEW j \in Nat
  PROVE  Passed(0) = Earlier /\ Upto(0) = 0
         /\ (j >= 1 => Passed(j) = Read(Passed(j - 1), Taken(bare)[j].kind))
<1>1. 1 \in Nat \ {0} /\ 1 - 1 = 0
  OBVIOUS
<1>2. Passed(0) = Earlier /\ Upto(0) = 0
  BY <1>1, ReadNone, LengthNone DEF Passed, Upto
<1>3. ASSUME j >= 1 PROVE Passed(j) = Read(Passed(j - 1), Taken(bare)[j].kind)
  BY <1>1, <1>3, ReadMore DEF Passed
<1> QED BY <1>2, <1>3

(* A part that the sequential parser has not read is taken as it is.        *)
LEMMA TakenIs ==
  ASSUME NEW b, NEW i \in 1..N
  PROVE  /\ i \notin b => Taken(b)[i].kind = Kind(i)
         /\ Kind(i) # "string" => Taken(b)[i].kind = Kind(i)
BY DEF Taken, Kind, N

(* Reading more parts sequentially does not change what was passed before.  *)
LEMMA TakenSame ==
  ASSUME NEW b, NEW c, NEW j \in Nat, N \in Nat, j <= N, \A i \in 1..j : i \in b <=> i \in c
  PROVE  ReadAll(Taken(b), Earlier, 1, j) = ReadAll(Taken(c), Earlier, 1, j)
<1>1. 1 \in Nat \ {0} /\ j >= 1 - 1
  OBVIOUS
<1>2. \A k \in 1..j : Taken(b)[k].kind = Taken(c)[k].kind
  <2> TAKE k \in 1..j
  <2>1. k \in 1..Len(input.parts) /\ (k \in b <=> k \in c)
    BY DEF N
  <2>2. Taken(b)[k] = Taken(c)[k]
    BY <2>1 DEF Taken
  <2> QED BY <2>2
<1> QED BY <1>1, <1>2, ReadSame

LEMMA Plainly == ASSUME NEW t, NEW kind, kind \in {"plain", "list"} PROVE Read(t, kind) = t
<1>1. Begin(t, kind) = t
  BY DEF Begin
<1>2. End(t, kind) = t
  BY EndElse
<1> QED BY <1>1, <1>2 DEF Read

(* The call is for the whole object if the input's length is known.         *)
LEMMA KnownFacts ==
  ASSUME RetryInv, Active, input.known
  PROVE  /\ call.first = 1 /\ call.last = N /\ pos = 0 /\ Remaining = input.given
         /\ MaxSize = Smaller(Limit, input.given) /\ Limit \in Nat /\ Limit >= 2
<1>1. call.first = 1 /\ call.last = N /\ pos = Upto(0) /\ Shape /\ input.given \in Nat
  BY DEF RetryInv, Shape, Places
<1>2. pos = 0
  BY <1>1, PassedMore
<1>3. Remaining = input.given
  BY <1>1, <1>2 DEF Remaining
<1> QED BY <1>1, <1>2, <1>3, RetryAssumption DEF MaxSize

(* The call has failed, for a reason.                                       *)
LEMMA FailsKeep ==
  ASSUME RetryInv, Fails, input.known => ~Readable \/ input.given < Ahead
  PROVE  RetryInv'
<1>1. pc' = "failed" /\ UNCHANGED <<input, call>>
  BY DEF Fails
<1>2. Shape'
  BY <1>1 DEF RetryInv, Shape, Active, N
<1>3. Places' /\ Attempt'
  BY <1>1 DEF Places, Attempt, Active
<1>4. FitsMeansParsed'
  BY <1>1 DEF FitsMeansParsed, Readable, Kind
<1> QED BY <1>2, <1>3, <1>4 DEF RetryInv

(* The call has ended, having read its parts up to n.                       *)
LEMMA EndsKeep ==
  ASSUME RetryInv, Active, UNCHANGED <<input, call>>, NEW n \in call.first..call.last, CallEnds(n),
         bare' \subseteq 1..call.last, tables' = ReadAll(Taken(bare'), Earlier, 1, n),
         \A i \in (n + 1)..call.last : TailOf(i) # "no"
  PROVE  RetryInv'
<1>1. /\ IsObject(input.parts) /\ N \in Nat /\ call.first \in 1..N /\ call.last \in call.first..N
      /\ (call.first = 1 => call.last = N) /\ N = Len(input.parts)
      /\ (input.known => call.first = 1) /\ pos = Upto(call.first - 1)
  BY DEF RetryInv, Shape, Places, N
<1>2. pos' = Upto(n) /\ n \in 1..call.last /\ n \in 1..N
  <2>1. call.first \in Nat \ {0} /\ n \in Nat /\ call.first - 1 <= n /\ n <= N /\ n \in 1..call.last /\ n \in 1..N
    BY <1>1
  <2>2. Upto(n) = Upto(call.first - 1) + LengthOf(input.parts, call.first, n)
    BY <1>1, <2>1, LengthOn DEF N, Upto
  <2> QED BY <1>1, <2>1, <2>2 DEF CallEnds
<1>3. tables' = Passed(n)' /\ pos' = Upto(n)' /\ N' = N
  BY <1>2 DEF Passed, Upto, N, Taken, Kind
<1>4. call.last = N => Absent(n + 1)'
  BY <1>1 DEF Absent, TailOf, N
<1>5. pc' \in {"done", "children", "astray"} => Attempt'
  BY DEF Attempt
<1>6. CASE call.first > 1 /\ (n = call.last \/ call.last = N)
  <2>1. pc' = "children" /\ ~input.known
    BY <1>1, <1>6 DEF CallEnds, IsChild
  <2>2. Shape'
    BY <1>1, <2>1 DEF RetryInv, Shape, Active, N
  <2>3. Places'
    BY <1>2, <1>3, <1>4, <1>6, <2>1 DEF Places, Active
  <2>4. FitsMeansParsed'
    BY <2>1 DEF FitsMeansParsed
  <2> QED BY <1>5, <2>1, <2>2, <2>3, <2>4 DEF RetryInv
<1>7. CASE call.first > 1 /\ ~(n = call.last \/ call.last = N)
  <2>1. pc' = "astray" /\ ~input.known
    BY <1>1, <1>7 DEF CallEnds, IsChild
  <2>2. Shape'
    BY <1>1, <2>1 DEF RetryInv, Shape, Active, N
  <2>3. Places'
    BY <2>1 DEF Places, Active
  <2>4. FitsMeansParsed'
    BY <2>1 DEF FitsMeansParsed
  <2> QED BY <1>5, <2>1, <2>2, <2>3, <2>4 DEF RetryInv
<1>8. CASE ~(call.first > 1)
  <2>1. pc' = "done" /\ call.last = N
    BY <1>1, <1>8 DEF CallEnds, IsChild
  <2>2. Shape'
    BY <1>1, <2>1 DEF RetryInv, Shape, Active, N
  <2>3. Places'
    BY <1>2, <1>3, <1>4, <2>1 DEF Places, Active
  <2>4. FitsMeansParsed'
    BY <2>1 DEF FitsMeansParsed
  <2> QED BY <1>5, <2>1, <2>2, <2>3, <2>4 DEF RetryInv
<1> QED BY <1>6, <1>7, <1>8

LEMMA CallFacts ==
  ASSUME RetryInv, Active
  PROVE  /\ IsObject(input.parts) /\ N = Len(input.parts) /\ N \in Nat /\ input.given \in Nat
         /\ call.first \in 1..N /\ call.last \in call.first..N
         /\ call.first \in Nat \ {0} /\ call.last \in Nat /\ call.first - 1 \in Nat
         /\ call.first - 1 <= call.last /\ call.last <= N /\ call.first <= call.last
         /\ pos = Upto(call.first - 1) /\ Upto(call.first - 1) \in Nat /\ pos \in Nat
         /\ LengthOf(input.parts, call.first, call.last) \in Nat
<1>1. /\ IsObject(input.parts) /\ N = Len(input.parts) /\ N \in Nat /\ input.given \in Nat
      /\ call.first \in 1..N /\ call.last \in call.first..N /\ pos = Upto(call.first - 1)
  BY DEF RetryInv, Shape, Places, N
<1>2. /\ call.first \in Nat \ {0} /\ call.last \in Nat /\ call.first - 1 \in Nat
      /\ call.first - 1 <= call.last /\ call.last <= N /\ call.first <= call.last /\ call.first - 1 <= N
  BY <1>1
<1>3. Upto(call.first - 1) \in Nat
  BY <1>1, <1>2, LengthGrows DEF Upto
<1>4. LengthOf(input.parts, call.first, call.last) \in Nat
  BY <1>1, <1>2, LengthType
<1> QED BY <1>1, <1>2, <1>3, <1>4

(* An object whose call does not fit in what is left is not readable.       *)
LEMMA TooLong ==
  ASSUME RetryInv, Active, input.known, NEW j \in 1..N, Upto(j) > Smaller(Limit, input.given)
  PROVE  ~Readable
<1>1. IsObject(input.parts) /\ N = Len(input.parts) /\ N \in Nat /\ input.given \in Nat
  BY CallFacts
<1>2. Upto(j) <= Upto(N) /\ Upto(j) \in Nat /\ Upto(N) \in Nat
  BY <1>1, LengthGrows DEF Upto
<1>3. Limit \in Nat
  BY RetryAssumption
<1>4. Smaller(Limit, input.given) \in Nat
  BY <1>1, <1>3 DEF Smaller
<1>5. ~(Upto(N) <= Smaller(Limit, input.given))
  BY <1>2, <1>4
<1> QED BY <1>1, <1>5 DEF Readable, Upto

(* A part whose end is beyond what is left makes the object unreadable.     *)
LEMMA BeyondInput ==
  ASSUME RetryInv, Active, input.known, NEW i \in call.first..call.last,
         LengthOf(input.parts, call.first, i) > Remaining
  PROVE  ~Readable
<1>1. /\ call.first = 1 /\ Remaining = input.given /\ Limit \in Nat /\ input.given \in Nat
      /\ N \in Nat /\ call.last <= N /\ call.last \in Nat /\ IsObject(input.parts) /\ N = Len(input.parts)
  BY KnownFacts, CallFacts
<1>2. i \in 1..N /\ i \in Nat /\ i <= N
  BY <1>1
<1>3. Upto(i) > input.given /\ Upto(i) \in Nat
  <2>1. Upto(i) \in Nat
    BY <1>1, <1>2, LengthGrows DEF Upto
  <2> QED BY <1>1, <2>1 DEF Upto
<1>4. Upto(i) > Smaller(Limit, input.given)
  BY <1>1, <1>3 DEF Smaller
<1> QED BY <1>2, <1>4, TooLong

(* The sequential parser, when it starts from what was passed before the    *)
(* call.                                                                    *)
LEMMA SequentialKeeps ==
  ASSUME RetryInv, Active, NEW t, t = Passed(call.first - 1), Sequentially(t),
         input.known => ~Readable \/ BypassesWindow
  PROVE  RetryInv'
<1>1. PICK n \in (call.first - 1)..call.last :
        /\ \A i \in call.first..n : ~Obstructed(i)
        /\ n < call.last => Obstructed(n + 1)
        /\ bare' = bare \cup (call.first..n)
        /\ tables' = ReadAll(Taken(bare'), t, call.first, n)
        /\ IF n = call.last
           THEN CallEnds(n)
           ELSE /\ pc' = IF /\ Kind(n + 1) \in LeftUnread
                            /\ LengthOf(input.parts, call.first, n) < Remaining
                         THEN "astray" ELSE "failed"
                /\ UNCHANGED pos
        /\ UNCHANGED <<input, call, size, part, off, saved>>
  BY DEF Sequentially
<1>2. /\ IsObject(input.parts) /\ N = Len(input.parts) /\ N \in Nat /\ call.first \in 1..N
      /\ call.first \in Nat \ {0} /\ call.last \in Nat /\ call.first - 1 \in Nat /\ call.last <= N
      /\ call.first <= call.last /\ input.given \in Nat /\ pos \in Nat /\ bare \subseteq 1..(call.first - 1)
      /\ n \in Nat /\ n >= call.first - 1 /\ n <= call.last
  <2>1. bare \subseteq 1..(call.first - 1)
    BY DEF RetryInv, Shape
  <2> QED BY <1>1, <2>1, CallFacts
<1>3. CASE n = call.last
  <2>1. CallEnds(n) /\ n \in call.first..call.last /\ UNCHANGED <<input, call>>
    BY <1>1, <1>2, <1>3
  <2>2. bare' \subseteq 1..call.last
    <3>1. 1..(call.first - 1) \subseteq 1..call.last /\ call.first..n \subseteq 1..call.last
      BY <1>2
    <3> QED BY <1>1, <1>2, <3>1
  <2>3. t = ReadAll(Taken(bare'), Earlier, 1, call.first - 1)
    <3>1. \A i \in 1..(call.first - 1) : i \in bare <=> i \in bare'
      BY <1>1, <1>2
    <3>2. call.first - 1 <= N
      BY <1>2
    <3>3. Passed(call.first - 1) = ReadAll(Taken(bare'), Earlier, 1, call.first - 1)
      BY <1>2, <3>1, <3>2, TakenSame DEF Passed
    <3> QED BY <3>3
  <2>4. tables' = ReadAll(Taken(bare'), Earlier, 1, n)
    BY <1>1, <1>2, <2>3, ReadOn
  <2>5. \A i \in (n + 1)..call.last : TailOf(i) # "no"
    BY <1>2, <1>3
  <2> QED BY <2>1, <2>2, <2>4, <2>5, EndsKeep
<1>4. CASE n # call.last
  <2>1. /\ pc' = IF Kind(n + 1) \in LeftUnread /\ LengthOf(input.parts, call.first, n) < Remaining
                 THEN "astray" ELSE "failed"
        /\ UNCHANGED <<input, call>>
    BY <1>1, <1>4
  <2>2. Obstructed(n + 1) /\ n + 1 \in call.first..call.last /\ n + 1 \in 1..N
    BY <1>1, <1>2, <1>4
  <2>3. pc' \in {"failed", "astray"}
    BY <2>1
  <2>4. Shape'
    BY <2>1, <2>3 DEF RetryInv, Shape, Active, N
  <2>5. Places' /\ Attempt'
    BY <2>3 DEF Places, Attempt, Active
  <2>6. UNCHANGED <<Readable, BypassesWindow>> /\ (\A i : Kind(i)' = Kind(i)) /\ input' = input
    BY <2>1 DEF Readable, BypassesWindow, Kind, TailOf, Streaming
  <2>7. CASE ~input.known
    <3>1. FitsMeansParsed'
      BY <2>6, <2>7 DEF FitsMeansParsed
    <3> QED BY <2>4, <2>5, <3>1 DEF RetryInv
  <2>8. CASE input.known /\ pc' = "astray"
    <3>1. Kind(n + 1) \in LeftUnread
      BY <2>1, <2>8
    <3>2. n + 1 \in 1..Len(input'.parts) /\ Kind(n + 1)' \in LeftUnread
      BY <1>2, <2>2, <2>6, <3>1
    <3>3. FitsMeansParsed'
      <4>1. ~Readable' \/ BypassesWindow'
        BY <2>6, <2>8
      <4>2. \E i \in 1..Len(input'.parts) : Kind(i)' \in LeftUnread
        BY <3>2
      <4> QED BY <2>8, <4>1, <4>2 DEF FitsMeansParsed
    <3> QED BY <2>4, <2>5, <3>3 DEF RetryInv
  <2>9. CASE input.known /\ pc' = "failed"
    <3>1. Kind(n + 1) = "malformed" => ~Readable
      BY <1>2, <2>2 DEF Readable
    <3>2. LengthOf(input.parts, call.first, n + 1) > Remaining => ~Readable
      BY <2>2, <2>9, BeyondInput
    <3>3. ASSUME Kind(n + 1) \in LeftUnread PROVE ~Readable
      <4>1. ~(LengthOf(input.parts, call.first, n) < Remaining)
        BY <2>1, <2>9, <3>3
      <4>2. LengthOf(input.parts, call.first, n + 1) = LengthOf(input.parts, call.first, n) + input.parts[n + 1].len
        <5>1. n + 1 \in Nat /\ n + 1 >= call.first /\ (n + 1) - 1 = n
          BY <1>2
        <5> QED BY <1>2, <5>1, LengthMore
      <4>3. input.parts[n + 1].len \in Nat /\ input.parts[n + 1].len > 0
        BY <1>2, <2>2, PartType
      <4>4. LengthOf(input.parts, call.first, n) \in Nat /\ Remaining \in Int
        <5>1. call.first - 1 <= n /\ n <= Len(input.parts)
          BY <1>2
        <5> QED BY <1>2, <5>1, LengthType DEF Remaining
      <4>5. LengthOf(input.parts, call.first, n + 1) > Remaining
        BY <4>1, <4>2, <4>3, <4>4
      <4> QED BY <2>2, <2>9, <4>5, BeyondInput
    <3>4. ~Readable
      BY <2>2, <3>1, <3>2, <3>3 DEF Obstructed
    <3>5. FitsMeansParsed'
      BY <2>6, <3>4 DEF FitsMeansParsed
    <3> QED BY <2>4, <2>5, <3>5 DEF RetryInv
  <2> QED BY <2>3, <2>7, <2>8, <2>9
<1> QED BY <1>3, <1>4

LEMMA StreamVectorKeeps == RetryInv /\ StreamVector => RetryInv'
<1> SUFFICES ASSUME RetryInv, StreamVector PROVE RetryInv'
  OBVIOUS
<1>1. Active /\ pc = "open" /\ BypassesWindow /\ Sequentially(tables)
  BY DEF StreamVector, Active
<1>2. tables = Passed(call.first - 1)
  BY <1>1 DEF RetryInv, Places
<1> QED BY <1>1, <1>2, SequentialKeeps

LEMMA OpenKeeps == RetryInv /\ Open => RetryInv'
<1> SUFFICES ASSUME RetryInv, Open PROVE RetryInv'
  OBVIOUS
<1>1. Active /\ pc = "open"
  BY DEF Open, Active
<1>2. CASE Remaining < Ahead \/ (~Streaming /\ ~input.known)
  <2>1. Fails
    BY <1>2 DEF Open
  <2>2. ASSUME input.known PROVE input.given < Ahead
    BY <1>1, <1>2, <2>2, KnownFacts
  <2> QED BY <2>1, <2>2, FailsKeep
<1>3. CASE ~(Remaining < Ahead \/ (~Streaming /\ ~input.known))
  <2>1. PICK estimate \in 1..Limit : size' = Smaller(estimate, Larger(MaxSize, 1))
    BY <1>3 DEF Open
  <2>2. pc' = "window" /\ UNCHANGED <<input, call, pos, tables, bare>>
    BY <1>3 DEF Open
  <2>3. Limit \in Nat /\ Limit >= 2 /\ Remaining \in Int /\ Remaining >= 2
    BY <1>1, <1>3, RetryAssumption, CallFacts DEF Remaining, Ahead
  <2>4. MaxSize \in Nat /\ MaxSize >= 2
    BY <2>3 DEF MaxSize, Smaller
  <2>5. size' \in Nat \ {0} /\ size' <= MaxSize
    BY <2>1, <2>3, <2>4 DEF Smaller, Larger
  <2>6. MaxSize' = MaxSize
    BY <2>2 DEF MaxSize, Remaining
  <2>7. Shape'
    BY <1>1, <2>2 DEF RetryInv, Shape, Active, N
  <2>8. Places'
    BY <1>1, <2>2, <2>5, <2>6 DEF RetryInv, Places, Active, Passed, Taken, Kind, Upto
  <2> QED BY <2>2, <2>7, <2>8 DEF RetryInv, Attempt, FitsMeansParsed
<1> QED BY <1>2, <1>3

LEMMA WindowKeeps == RetryInv /\ Window => RetryInv'
<1> SUFFICES ASSUME RetryInv, Window PROVE RetryInv'
  OBVIOUS
<1>1. Active /\ pc = "window" /\ size \in Nat /\ (input.known => size <= MaxSize)
  BY DEF Window, Active, RetryInv, Places
<1>2. CASE size > Remaining
  <2>1. Fails
    BY <1>2 DEF Window
  <2>2. ASSUME input.known PROVE FALSE
    <3>1. Remaining = input.given /\ input.given \in Nat /\ size <= Smaller(Limit, input.given) /\ Limit \in Nat
      BY <1>1, <2>2, KnownFacts, CallFacts
    <3> QED BY <1>1, <1>2, <3>1 DEF Smaller
  <2> QED BY <2>1, <2>2, FailsKeep
<1>3. CASE ~(size > Remaining)
  <2>1. /\ pc' = "parse" /\ saved' = tables /\ part' = call.first /\ off' = 0
        /\ UNCHANGED <<input, call, size, pos, tables, bare>>
    BY <1>3 DEF Window
  <2>2. Shape'
    BY <1>1, <2>1 DEF RetryInv, Shape, Active, N
  <2>3. Places'
    BY <1>1, <2>1 DEF RetryInv, Places, Active, Passed, Taken, Kind, Upto, MaxSize, Remaining
  <2>4. tables = Passed(call.first - 1)
    BY <1>1 DEF RetryInv, Places
  <2>5. IsTable(tables) /\ Extends(tables, tables)
    BY <1>1, <2>4, CallFacts, PassedIs, ExtendsItself
  <2>6. LengthOf(input.parts, call.first, call.first - 1) = 0 /\ call.first \in call.first..(call.last + 1)
    BY <1>1, CallFacts, LengthNone
  <2>7. Attempt'
    BY <2>1, <2>4, <2>5, <2>6 DEF Attempt, Passed, Taken, Kind
  <2> QED BY <2>1, <2>2, <2>3, <2>7 DEF RetryInv, FitsMeansParsed
<1> QED BY <1>2, <1>3

LEMMA AttemptFacts ==
  ASSUME RetryInv, pc \in {"parse", "retry"}
  PROVE  /\ Active /\ saved = Passed(call.first - 1) /\ IsTable(saved) /\ IsTable(tables) /\ Extends(tables, saved)
         /\ part \in Nat /\ part >= call.first /\ part <= call.last + 1
         /\ off = LengthOf(input.parts, call.first, part - 1) /\ off \in Nat
         /\ size \in Nat /\ size > 0 /\ (input.known => size <= MaxSize)
         /\ (pc = "parse" => tables = Passed(part - 1))
         /\ (part <= call.last => part \in 1..N /\ input.parts[part].len \in Nat /\ input.parts[part].len > 0)
<1>1. Active
  BY DEF Active
<1>2. /\ saved = Passed(call.first - 1) /\ IsTable(tables) /\ Extends(tables, saved)
      /\ part \in call.first..(call.last + 1) /\ off = LengthOf(input.parts, call.first, part - 1)
      /\ size \in Nat \ {0} /\ (input.known => size <= MaxSize)
      /\ (pc = "parse" => tables = Passed(part - 1))
  BY DEF RetryInv, Attempt, Places
<1>3. part \in Nat /\ part >= call.first /\ part <= call.last + 1 /\ part - 1 \in Nat
      /\ call.first - 1 <= part - 1 /\ part - 1 <= Len(input.parts)
  BY <1>1, <1>2, CallFacts
<1>4. off \in Nat
  BY <1>1, <1>2, <1>3, CallFacts, LengthType
<1>5. IsTable(saved)
  BY <1>1, <1>2, CallFacts, PassedIs
<1>6. ASSUME part <= call.last PROVE part \in 1..N /\ input.parts[part].len \in Nat /\ input.parts[part].len > 0
  <2>1. part \in 1..Len(input.parts)
    BY <1>1, <1>3, <1>6, CallFacts
  <2> QED BY <1>1, <2>1, PartType, CallFacts
<1> QED BY <1>1, <1>2, <1>3, <1>4, <1>5, <1>6

LEMMA ReadPartKeeps == RetryInv /\ ReadPart => RetryInv'
<1> SUFFICES ASSUME RetryInv, ReadPart PROVE RetryInv'
  OBVIOUS
<1>1. /\ pc = "parse" /\ part <= call.last /\ tables' = Read(tables, input.parts[part].kind)
      /\ off' = off + input.parts[part].len /\ part' = part + 1
      /\ UNCHANGED <<input, call, pc, size, pos, saved, bare>>
  BY DEF ReadPart, Kind
<1>2. Shape'
  BY <1>1 DEF RetryInv, Shape, Active, N
<1>3. Places'
  BY <1>1 DEF RetryInv, Places, Active, Passed, Taken, Kind, Upto, MaxSize, Remaining
<1>4. IsTable(tables') /\ Extends(tables', saved)
  BY <1>1, AttemptFacts, ReadExtends
<1>5. tables' = Passed(part)
  <2>1. Active /\ part \in Nat /\ part >= 1 /\ tables = Passed(part - 1) /\ part \in 1..N
    BY <1>1, AttemptFacts, CallFacts
  <2>2. Taken(bare)[part].kind = input.parts[part].kind
    <3>1. part \notin bare
      <4>1. bare \subseteq 1..(call.first - 1)
        BY <2>1 DEF RetryInv, Shape
      <4>2. part >= call.first /\ call.first \in Nat /\ part \in Nat
        BY <1>1, <2>1, AttemptFacts, CallFacts
      <4>3. part \notin 1..(call.first - 1)
        BY <4>2
      <4> QED BY <4>1, <4>3
    <3> QED BY <2>1, <3>1, TakenIs DEF Kind
  <2> QED BY <1>1, <2>1, <2>2, PassedMore
<1>6. off' = LengthOf(input.parts, call.first, part)
  <2>1. part \in Nat /\ part >= call.first /\ call.first \in Nat \ {0} /\ off = LengthOf(input.parts, call.first, part - 1)
    BY <1>1, AttemptFacts, CallFacts
  <2> QED BY <1>1, <2>1, LengthMore
<1>7. part + 1 \in call.first..(call.last + 1) /\ (part + 1) - 1 = part
  <2>1. Active
    BY <1>1 DEF Active
  <2>2. call.first \in Nat \ {0} /\ call.last \in Nat
    BY <2>1, CallFacts
  <2>3. part \in Nat /\ part >= call.first /\ part <= call.last
    BY <1>1, AttemptFacts
  <2> QED BY <2>2, <2>3
<1>8. saved = Passed(call.first - 1)
  BY <1>1, AttemptFacts
<1>9. Attempt'
  BY <1>1, <1>4, <1>5, <1>6, <1>7, <1>8 DEF Attempt, Passed, Taken, Kind
<1> QED BY <1>1, <1>2, <1>3, <1>9 DEF RetryInv, FitsMeansParsed

LEMMA CutKeeps == RetryInv /\ Cut => RetryInv'
<1> SUFFICES ASSUME RetryInv, Cut PROVE RetryInv'
  OBVIOUS
<1>1. /\ pc = "parse" /\ part <= call.last /\ off + input.parts[part].len > size /\ pc' = "retry"
      /\ (tables' = Begin(tables, Kind(part)) \/ tables' = tables)
      /\ UNCHANGED <<input, call, size, part, off, pos, saved, bare>>
  BY DEF Cut
<1>2. Shape'
  BY <1>1 DEF RetryInv, Shape, Active, N
<1>3. Places'
  BY <1>1 DEF RetryInv, Places, Active, Passed, Taken, Kind, Upto, MaxSize, Remaining
<1>4. IsTable(tables') /\ Extends(tables', saved)
  BY <1>1, AttemptFacts, BeginExtends
<1>5. Attempt'
  BY <1>1, <1>4 DEF RetryInv, Attempt, Passed, Taken, Kind
<1> QED BY <1>1, <1>2, <1>3, <1>5 DEF RetryInv, FitsMeansParsed

LEMMA MalformedKeeps == RetryInv /\ Malformed => RetryInv'
<1> SUFFICES ASSUME RetryInv, Malformed PROVE RetryInv'
  OBVIOUS
<1>1. Fails /\ pc = "parse" /\ part <= call.last /\ Kind(part) = "malformed"
  BY DEF Malformed
<1>2. part \in 1..Len(input.parts)
  BY <1>1, AttemptFacts, CallFacts
<1> QED BY <1>1, <1>2, FailsKeep DEF Readable

LEMMA SucceedKeeps == RetryInv /\ Succeed => RetryInv'
<1> SUFFICES ASSUME RetryInv, Succeed PROVE RetryInv'
  OBVIOUS
<1>1. /\ pc = "parse" /\ (part > call.last \/ MayEndHere) /\ CallEnds(part - 1)
      /\ UNCHANGED <<input, call, tables, bare>>
  BY DEF Succeed
<1>2. /\ Active /\ part \in Nat /\ part >= call.first /\ part <= call.last + 1
      /\ call.first \in Nat /\ call.last \in Nat /\ call.first <= call.last
  BY <1>1, AttemptFacts, CallFacts
<1>3. part - 1 \in call.first..call.last /\ \A i \in ((part - 1) + 1)..call.last : TailOf(i) # "no"
  BY <1>1, <1>2 DEF MayEndHere
<1>4. bare' \subseteq 1..call.last
  <2>1. bare \subseteq 1..(call.first - 1)
    BY <1>2 DEF RetryInv, Shape
  <2> QED BY <1>1, <1>2, <2>1
<1>5. tables' = ReadAll(Taken(bare'), Earlier, 1, part - 1)
  <2>1. tables = Passed(part - 1)
    BY <1>1, AttemptFacts
  <2> QED BY <1>1, <2>1 DEF Passed
<1> QED BY <1>1, <1>2, <1>3, <1>4, <1>5, EndsKeep

LEMMA RetryKeeps == RetryInv /\ Retry => RetryInv'
<1> SUFFICES ASSUME RetryInv, Retry PROVE RetryInv'
  OBVIOUS
<1>1. /\ pc = "retry" /\ ~(size >= MaxSize) /\ tables' = PutBack(tables, saved)
      /\ size' = Smaller(MaxSize, 2 * size) /\ pc' = "window" /\ UNCHANGED <<input, call, pos, bare>>
  BY DEF Retry, AtMost, Doubled
<1>2. tables' = Passed(call.first - 1)
  BY <1>1, AttemptFacts, PutsBack
<1>3. MaxSize \in Int /\ MaxSize' = MaxSize
  <2>1. Remaining \in Int /\ Limit \in Int /\ Remaining' = Remaining
    BY <1>1, AttemptFacts, CallFacts, RetryAssumption DEF Remaining
  <2> QED BY <1>1, <2>1 DEF MaxSize, Smaller
<1>4. size' \in Nat \ {0} /\ size' <= MaxSize
  BY <1>1, <1>3, AttemptFacts DEF Smaller
<1>5. Shape'
  BY <1>1 DEF RetryInv, Shape, Active, N
<1>6. Places'
  BY <1>1, <1>2, <1>3, <1>4 DEF RetryInv, Places, Active, Passed, Taken, Kind, Upto
<1> QED BY <1>1, <1>5, <1>6 DEF RetryInv, Attempt, FitsMeansParsed

(* An object that the longest window is too short for is not readable.      *)
LEMMA LongestTooShort ==
  ASSUME RetryInv, pc = "retry", AtMost, input.known
  PROVE  ~Readable
<1>1. /\ call.first = 1 /\ MaxSize = Smaller(Limit, input.given) /\ Limit \in Nat /\ input.given \in Nat
      /\ size >= MaxSize
  BY AttemptFacts, KnownFacts, CallFacts DEF AtMost
<1>2. part <= call.last /\ off + input.parts[part].len > size
  BY DEF RetryInv, Attempt
<1>3. part \in 1..N /\ part \in Nat /\ part >= 1
  BY <1>1, <1>2, AttemptFacts
<1>4. Upto(part) = off + input.parts[part].len
  BY <1>1, <1>3, AttemptFacts, LengthMore DEF Upto
<1>5. MaxSize \in Nat
  BY <1>1 DEF Smaller
<1>6. off \in Nat /\ input.parts[part].len \in Nat /\ size \in Nat
  BY <1>2, AttemptFacts
<1>7. Upto(part) > Smaller(Limit, input.given)
  BY <1>1, <1>2, <1>4, <1>5, <1>6
<1> QED BY <1>3, <1>7, AttemptFacts, TooLong

LEMMA GiveUpKeeps == RetryInv /\ GiveUp => RetryInv'
<1> SUFFICES ASSUME RetryInv, GiveUp PROVE RetryInv'
  OBVIOUS
<1>1. pc = "retry" /\ AtMost /\ Fails
  BY DEF GiveUp
<1> QED BY <1>1, LongestTooShort, FailsKeep

LEMMA SequentiallyKeeps == RetryInv /\ ReadSequentially => RetryInv'
<1> SUFFICES ASSUME RetryInv, ReadSequentially PROVE RetryInv'
  OBVIOUS
<1>1. pc = "retry" /\ AtMost /\ Sequentially(PutBack(tables, saved))
  BY DEF ReadSequentially
<1>2. Active /\ PutBack(tables, saved) = Passed(call.first - 1)
  BY <1>1, AttemptFacts, PutsBack
<1>3. input.known => ~Readable
  BY <1>1, LongestTooShort
<1> HIDE DEF RetryInv
<1> QED BY <1>1, <1>2, <1>3, SequentialKeeps

LEMMA ChildrenKeep == RetryInv /\ ReadChildren => RetryInv'
<1> SUFFICES ASSUME RetryInv, ReadChildren PROVE RetryInv'
  OBVIOUS
<1>1. /\ pc = "retry" /\ ~input.known /\ Kind(call.first) = "list" /\ tables' = PutBack(tables, saved)
      /\ pc' = "children" /\ pos' = pos + input.parts[1].len /\ call' = [first |-> 1, last |-> 1]
      /\ input' = input /\ bare' = bare
  BY DEF ReadChildren, IsList
<1>2. Active /\ call.first = 1 /\ call.last = N /\ 1 <= N /\ pos = Upto(0) /\ bare = {} /\ N \in Nat
  <2>1. Active
    BY <1>1, AttemptFacts
  <2>2. IsObject(input.parts) /\ N = Len(input.parts) /\ N \in Nat /\ call.first \in 1..N
    BY <2>1, CallFacts
  <2>3. call.first = 1
    BY <1>1, <2>2 DEF IsObject, Kind
  <2>4. call.last = N /\ bare \subseteq 1..(call.first - 1)
    BY <2>1, <2>3 DEF RetryInv, Shape
  <2> QED BY <2>1, <2>2, <2>3, <2>4, CallFacts
<1>3. Taken(bare)[1].kind = "list"
  BY <1>1, <1>2, TakenIs
<1>4. tables' = Passed(1)
  <2>1. tables' = Passed(0)
    BY <1>1, <1>2, AttemptFacts, PutsBack
  <2>2. Passed(1) = Read(Passed(0), "list")
    BY <1>3, PassedMore
  <2> QED BY <2>1, <2>2, Plainly
<1>5. pos' = Upto(1)
  <2>1. 1 \in Nat \ {0} /\ 1 \in Nat /\ 1 >= 1 /\ 1 - 1 = 0
    OBVIOUS
  <2>2. Upto(1) = Upto(0) + input.parts[1].len
    BY <2>1, LengthMore DEF Upto
  <2> QED BY <1>1, <1>2, <2>2
<1>6. call'.first = 1 /\ call'.last = 1 /\ 1 \in 1..N /\ 1 \in 1..1
  BY <1>1, <1>2
<1>7. Shape'
  BY <1>1, <1>2, <1>6 DEF RetryInv, Shape, Active, N
<1>8. Places'
  <2>1. tables' = Passed(1)' /\ pos' = Upto(1)'
    BY <1>1, <1>4, <1>5 DEF Passed, Taken, Kind, Upto
  <2>2. \E n \in 1..call'.last : /\ tables' = Passed(n)' /\ pos' = Upto(n)'
                                 /\ (n = call'.last \/ (call'.last = N' /\ Absent(n + 1)'))
    BY <1>6, <2>1
  <2> QED BY <1>1, <2>2 DEF Places, Active
<1> QED BY <1>1, <1>7, <1>8 DEF RetryInv, Attempt, FitsMeansParsed

LEMMA OtherwiseKeeps == RetryInv /\ ReadOtherwise => RetryInv'
<1> SUFFICES ASSUME RetryInv, ReadOtherwise PROVE RetryInv'
  OBVIOUS
<1>1. ~input.known /\ pc' = "astray" /\ UNCHANGED <<input, call>>
  BY DEF ReadOtherwise
<1>2. Shape'
  BY <1>1 DEF RetryInv, Shape, Active, N
<1>3. Places' /\ Attempt' /\ FitsMeansParsed'
  BY <1>1 DEF Places, Attempt, Active, FitsMeansParsed
<1> QED BY <1>2, <1>3 DEF RetryInv

LEMMA NextChildKeeps == RetryInv /\ NextChild => RetryInv'
<1> SUFFICES ASSUME RetryInv, NextChild PROVE RetryInv'
  OBVIOUS
<1>1. /\ pc = "children" /\ UNCHANGED <<input, pos, tables, bare>> /\ ~input.known
      /\ N = Len(input.parts) /\ N \in Nat /\ call.first \in 1..N /\ call.last \in call.first..N
      /\ bare \subseteq 1..call.last
  BY DEF NextChild, RetryInv, Shape, N
<1>2. PICK n \in 1..call.last : /\ tables = Passed(n) /\ pos = Upto(n)
                               /\ (n = call.last \/ (call.last = N /\ Absent(n + 1)))
  BY <1>1 DEF RetryInv, Places
<1>3. CASE call.last < Len(input.parts)
  <2>1. PICK m \in ChildEnds : call' = [first |-> call.last + 1, last |-> m]
    BY <1>3 DEF NextChild
  <2>2. pc' = "open"
    BY <1>3 DEF NextChild
  <2>0. PICK k \in Nat : k = call.last + 1 /\ k - 1 = call.last /\ k > 1
    BY <1>1
  <2>3. call'.first = k /\ call'.last = m /\ m \in k..N
    BY <1>1, <2>0, <2>1 DEF ChildEnds
  <2>4. k \in 1..N /\ k - 1 = call.last /\ k > 1
    BY <1>1, <1>3, <2>0
  <2>5. Shape'
    BY <1>1, <2>2, <2>3, <2>4 DEF RetryInv, Shape, Active, N
  <2>6. tables = Passed(call.last) /\ pos = Upto(call.last)
    BY <1>1, <1>2, <1>3
  <2>7. \A j : Passed(j)' = Passed(j) /\ Upto(j)' = Upto(j)
    BY <1>1 DEF Passed, Taken, Kind, Upto
  <2>8. tables' = Passed(k - 1)' /\ pos' = Upto(k - 1)'
    BY <1>1, <2>4, <2>6, <2>7
  <2>9. Places'
    <3>1. (tables = Passed(call.first - 1))' /\ (pos = Upto(call.first - 1))'
      BY <2>3, <2>8
    <3> QED BY <2>2, <3>1 DEF Places, Active
  <2> QED BY <2>2, <2>5, <2>9 DEF RetryInv, Attempt, FitsMeansParsed
<1>4. CASE ~(call.last < Len(input.parts))
  <2>1. pc' = "done" /\ call' = call
    BY <1>4 DEF NextChild
  <2>2. call.last = N
    BY <1>1, <1>4
  <2>3. Shape'
    BY <1>1, <2>1 DEF RetryInv, Shape, Active, N
  <2>4. Absent(n + 1) /\ n \in 1..N
    BY <1>1, <1>2, <2>2 DEF Absent
  <2>5. tables' = Passed(n)' /\ pos' = Upto(n)' /\ Absent(n + 1)' /\ N' = N
    <3>1. Passed(n)' = Passed(n) /\ Upto(n)' = Upto(n)
      BY <1>1 DEF Passed, Taken, Kind, Upto
    <3>2. Absent(n + 1)' /\ N' = N
      BY <1>1, <2>4 DEF Absent, TailOf, N
    <3>3. tables' = tables /\ pos' = pos /\ tables = Passed(n) /\ pos = Upto(n)
      BY <1>1, <1>2
    <3> HIDE DEF RetryInv
    <3> QED BY <3>1, <3>2, <3>3, Zenon
  <2>6. Places'
    BY <2>1, <2>4, <2>5 DEF Places, Active
  <2> QED BY <2>1, <2>3, <2>6 DEF RetryInv, Attempt, FitsMeansParsed
<1> QED BY <1>3, <1>4
-----------------------------------------------------------------------------
LEMMA ObjectsAre == ASSUME NEW o \in Objects PROVE IsObject(o)
<1> DEFINE S == [kind : AllKinds, len : Nat \ {0}, tail : Tails]
<1>1. First \subseteq S /\ Later \subseteq S /\ Header \in S /\ MaxParts - 1 \in Nat
  <2>1. Kinds \subseteq AllKinds /\ Lengths \subseteq Nat \ {0} /\ MaxParts - 1 \in Nat /\ "list" \in AllKinds
    BY RetryAssumption DEF AllKinds
  <2>2. {"no"} \subseteq Tails /\ Tails \ {"no"} \subseteq Tails
    BY DEF Tails
  <2>3. First \subseteq S /\ Later \subseteq S
    BY <2>1, <2>2 DEF First, Later
  <2>4. Header \in S
    BY <2>1, <2>2 DEF Header
  <2> QED BY <2>1, <2>3, <2>4
<1>2. \A p \in First \cup Later : p.kind # "list"
  BY RetryAssumption DEF First, Later, PartKinds
<1>3. PICK p \in First \cup {Header}, c \in SomeOf(First \cup Later) : o = <<p>> \o c
  <2>1. PICK p \in First \cup {Header} : o \in Led(p, Later) \/ o \in Led(p, First \cup Later)
    <3> HIDE DEF S
    <3>1. o \in UNION {Led(p, Later) : p \in First} \/ o \in Led(Header, First \cup Later)
      BY Zenon DEF Objects
    <3>2. o \in UNION {Led(p, Later) : p \in First} => \E p \in First : o \in Led(p, Later)
      BY Zenon
    <3> QED BY <3>1, <3>2
  <2>2. SomeOf(Later) \subseteq SomeOf(First \cup Later)
    <3>1. \A n : [1..n -> Later] \subseteq [1..n -> First \cup Later]
      OBVIOUS
    <3> QED BY <3>1 DEF SomeOf
  <2>3. \E c \in SomeOf(First \cup Later) : o = <<p>> \o c
    BY <2>1, <2>2 DEF Led
  <2> QED BY <2>3
<1>4. PICK n \in 0..(MaxParts - 1) : c \in [1..n -> First \cup Later]
  BY DEF SomeOf
<1> HIDE DEF S
<1>5. n \in Nat /\ c \in Seq(S) /\ Len(c) = n /\ \A i \in 1..n : c[i] \in First \cup Later
  BY <1>1, <1>4
<1>6. p \in S
  BY <1>1, <1>3
<1>7. <<p>> \in Seq(S) /\ Len(<<p>>) = 1
  BY <1>6
<1>8. o \in Seq(S) /\ Len(o) = 1 + n /\ \A i \in 2..Len(o) : o[i] = c[i - 1]
  BY <1>3, <1>5, <1>7
<1>9. \A i \in 2..Len(o) : o[i].kind # "list"
  BY <1>2, <1>5, <1>8
<1> QED BY <1>5, <1>8, <1>9 DEF IsObject, S

LEMMA NotEmpty ==
  ASSUME NEW o, IsObject(o)
  PROVE  LengthOf(o, 1, Len(o)) \in Nat /\ LengthOf(o, 1, Len(o)) > 0
<1>1. Len(o) \in Nat /\ Len(o) >= 1 /\ Len(o) \in 1..Len(o) /\ 1 \in Nat \ {0}
      /\ Len(o) - 1 \in Nat /\ Len(o) - 1 <= Len(o) /\ 1 - 1 <= Len(o) - 1
  BY DEF IsObject
<1>2. LengthOf(o, 1, Len(o)) = LengthOf(o, 1, Len(o) - 1) + o[Len(o)].len
  BY <1>1, LengthMore
<1>3. o[Len(o)].len \in Nat /\ o[Len(o)].len > 0
  BY <1>1, PartType
<1>4. LengthOf(o, 1, Len(o) - 1) \in Nat
  BY <1>1, LengthType
<1> QED BY <1>2, <1>3, <1>4

LEMMA RetryInit == Init => RetryInv
<1> SUFFICES ASSUME Init PROVE RetryInv
  OBVIOUS
<1>1. PICK o \in Objects, e \in Entries, k \in Known, whole \in BOOLEAN, s \in Slack :
        input = [parts |-> o, entry |-> e, known |-> k,
                 given |-> IF whole THEN LengthOf(o, 1, Len(o)) + s ELSE LengthOf(o, 1, Len(o)) - 1]
  BY DEF Init
<1>2. IsObject(o) /\ LengthOf(o, 1, Len(o)) \in Nat /\ LengthOf(o, 1, Len(o)) > 0
  BY ObjectsAre, NotEmpty
<1>3. s \in Nat
  BY RetryAssumption
<1>4. input.parts = o /\ input.given \in Nat
  BY <1>1, <1>2, <1>3
<1>5. N \in Nat /\ N >= 1
  BY <1>2, <1>4 DEF IsObject, N
<1>6. call.first = 1 /\ call.last = N /\ pc = "open" /\ pos = 0 /\ tables = Earlier /\ bare = {}
  BY DEF Init, N
<1>7. Shape
  BY <1>2, <1>4, <1>5, <1>6 DEF Shape, Active
<1>8. Passed(0) = Earlier /\ Upto(0) = 0
  BY PassedMore
<1>9. Places
  BY <1>6, <1>8 DEF Places, Active
<1> QED BY <1>6, <1>7, <1>9 DEF RetryInv, Attempt, FitsMeansParsed

LEMMA RetryStep == RetryInv /\ [Next]_rvars => RetryInv'
<1>1. CASE UNCHANGED rvars
  BY <1>1 DEF rvars, RetryInv, Shape, Places, Attempt, FitsMeansParsed, Readable, Active, N, Passed,
              Taken, Upto, MaxSize, Remaining, Kind, TailOf, Absent, BypassesWindow, Streaming
<1>2. CASE Next
  BY <1>2, StreamVectorKeeps, OpenKeeps, WindowKeeps, ReadPartKeeps, CutKeeps, MalformedKeeps,
     SucceedKeeps, RetryKeeps, GiveUpKeeps, SequentiallyKeeps, ChildrenKeep, OtherwiseKeeps,
     NextChildKeeps DEF Next
<1> QED BY <1>1, <1>2

(* Wherever a parse stands in its windows, its tables are those it has to   *)
(* have there: what the attempt at hand added extends what was saved.       *)
THEOREM RetryAlways == Spec => []RetryInv
BY RetryInit, RetryStep, PTL DEF Spec

(* However often the window was too short, and wherever it cut the object,  *)
(* each attempt starts from the tables, symbols, cached values and flag that*)
(* the parts before the call left: what an attempt leaves behind is all     *)
(* taken back.                                                              *)
THEOREM AttemptsAreClean == Spec => []AttemptsStartClean
<1>1. RetryInv => AttemptsStartClean
  <2> SUFFICES ASSUME RetryInv, pc = "window" PROVE tables = Passed(call.first - 1)
    BY DEF AttemptsStartClean, Passed
  <2> QED BY DEF RetryInv, Places
<1> QED BY <1>1, RetryAlways, PTL

(* A parse that returns has done what one pass over the object does, up to  *)
(* where the cursor stands, and all that may lie behind that are attributes *)
(* and cells whose absence is forgiven.  The strings that the sequential    *)
(* parser has read are the only ones that are not shared.  Nothing is said  *)
(* of a parse that goes astray.                                             *)
THEOREM RetriesAreOnePass == Spec => []AsInOnePass
<1>1. RetryInv => AsInOnePass
  BY DEF RetryInv, Places, AsInOnePass, Passed, Upto, N
<1> QED BY <1>1, RetryAlways, PTL

(* A well-formed object that fits the buffer and is all there is parsed, if *)
(* the input's length is known; but for a streamed vector with contents that*)
(* the sequential parser leaves unread among its attributes.                *)
THEOREM WhatFitsIsParsed == Spec => []FitsMeansParsed
<1>1. RetryInv => FitsMeansParsed
  BY DEF RetryInv
<1> QED BY <1>1, RetryAlways, PTL
=============================================================================
