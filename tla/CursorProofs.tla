---------------------------- MODULE CursorProofs ----------------------------
(***************************************************************************)
(* Both cursors are the stream of bytes that the parsers rely on, for every *)
(* length of the input, every buffer size and every limit.                  *)
(***************************************************************************)
EXTENDS AsyncCursor, SequenceTheorems, TLAPS

(* What the forward cursor keeps besides: during a fill, what is left to    *)
(* read is what the request lacks, and what was read already is no more     *)
(* than the buffer held at rest; a skip has an empty buffer, and only the   *)
(* input's position counts.  An operation under way has its goal ahead.     *)
ForwardInv ==
  /\ Forward!TypeOK /\ Forward!BufferIsStream /\ Forward!BufferBounded
  /\ pc # "idle" => ~bad
  /\ pc = "fill" => /\ need <= Limit /\ pos - start <= Limit
                    /\ left = (pos + need) - inpos
  /\ pc = "skip" => inpos = pos /\ buf = <<>> /\ left <= need /\ goal = pos + left
  /\ pc \in {"ensure", "fill"} => goal = pos + need

(* The window cursor: a window never reaches past the input, and a refill   *)
(* is asked for what the limit and the input allow.                         *)
Most == IF Limit > BufferSize THEN Limit ELSE BufferSize
WindowInv ==
  /\ Window!TypeOK /\ Window!WindowIsStream /\ inpos = 0 /\ left = 0
  /\ start + Len(buf) <= StreamLen /\ Len(buf) <= Most
  /\ pc # "idle" => ~bad
  /\ pc = "open" => need <= BufferSize /\ need <= StreamLen /\ pos = 0
  /\ pc = "refill" => need <= Limit /\ need <= StreamLen - pos

CursorInv ==
  /\ opened \in {"forward", "window"}
  /\ opened = "forward" => ForwardInv
  /\ opened = "window" => WindowInv
-----------------------------------------------------------------------------
(* A row of consecutive bytes of the stream.                                *)
Consecutive(s, from) == \A i \in 1..Len(s) : s[i] = from + i - 1

LEMMA RunEnds ==
  ASSUME NEW s \in Seq(Nat), NEW from \in Nat, Consecutive(s, from),
         NEW k \in Nat, k <= Len(s)
  PROVE  LET t == SubSeq(s, k + 1, Len(s))
         IN t \in Seq(Nat) /\ Len(t) = Len(s) - k /\ Consecutive(t, from + k)
<1> DEFINE t == SubSeq(s, k + 1, Len(s))
<1>1. Len(s) \in Nat
  OBVIOUS
<1>2. t \in Seq(Nat) /\ Len(t) = Len(s) - k
  BY <1>1
<1>3. \A i \in 1..Len(t) : t[i] = s[k + i]
  BY <1>1, <1>2
<1>4. Consecutive(t, from + k)
  BY <1>1, <1>2, <1>3 DEF Consecutive
<1> QED BY <1>2, <1>4

(* The n bytes of the stream from position p on.                            *)
Run(p, n) == [i \in 1..n |-> p + i - 1]

LEMMA RunStarts ==
  ASSUME NEW s \in Seq(Nat), NEW from \in Nat, Consecutive(s, from),
         NEW k \in Nat, NEW n \in Nat, k + n <= Len(s)
  PROVE  /\ SubSeq(s, k + 1, k + n) \in Seq(Nat)
         /\ SubSeq(s, k + 1, k + n) = Run(from + k, n)
<1> DEFINE t == SubSeq(s, k + 1, k + n)
<1>1. Len(s) \in Nat
  OBVIOUS
<1>2. t \in Seq(Nat) /\ Len(t) = n
  BY <1>1
<1>3. \A i \in 1..n : t[i] = s[k + i]
  BY <1>1, <1>2
<1>4. \A i \in 1..n : t[i] = (from + k) + i - 1
  BY <1>1, <1>3 DEF Consecutive
<1> HIDE DEF t
<1>5. t = [i \in 1..n |-> t[i]]
  BY <1>2
<1>6. t = [i \in 1..n |-> (from + k) + i - 1]
  BY <1>4, <1>5
<1> QED BY <1>2, <1>6 DEF t, Run

LEMMA RunGrows ==
  ASSUME NEW s \in Seq(Nat), NEW from \in Nat, Consecutive(s, from), NEW n \in Nat
  PROVE  LET t == s \o [i \in 1..n |-> (from + Len(s)) + i - 1]
         IN t \in Seq(Nat) /\ Len(t) = Len(s) + n /\ Consecutive(t, from)
<1> DEFINE r == [i \in 1..n |-> (from + Len(s)) + i - 1]
           t == s \o r
<1>1. Len(s) \in Nat
  OBVIOUS
<1>2. r \in Seq(Nat) /\ Len(r) = n
  BY <1>1
<1>3. t \in Seq(Nat) /\ Len(t) = Len(s) + n
  BY <1>1, <1>2
<1>4. ASSUME NEW i \in 1..Len(t) PROVE t[i] = from + i - 1
  <2>1. CASE i <= Len(s)
    BY <2>1, <1>1, <1>3 DEF Consecutive
  <2>2. CASE i > Len(s)
    <3>1. i - Len(s) \in 1..n
      BY <2>2, <1>1, <1>3
    <3>2. t[i] = r[i - Len(s)]
      BY <2>2, <1>1, <1>2, <1>3
    <3> QED BY <3>1, <3>2, <1>1
  <2> QED BY <2>1, <2>2, <1>1, <1>3
<1> QED BY <1>3, <1>4 DEF Consecutive
-----------------------------------------------------------------------------
(* The forward cursor.                                                      *)
LEMMA ForwardFacts ==
  ASSUME ForwardInv
  PROVE  /\ inpos \in 0..StreamLen /\ start \in Nat /\ pos \in 0..StreamLen
         /\ buf \in Seq(Nat) /\ Len(buf) \in Nat /\ seen \in Seq(Nat)
         /\ pc \in {"idle", "ensure", "fill", "skip"}
         /\ need \in Nat /\ left \in Nat /\ bad \in BOOLEAN /\ goal \in Nat
         /\ Consecutive(buf, start)
         /\ (pc # "skip" /\ ~bad => inpos = start + Len(buf))
         /\ start <= pos /\ pos <= inpos
         /\ Len(buf) <= 2 * Limit
         /\ (pc \in {"idle", "ensure"} => Len(buf) <= Limit \/ bad)
         /\ (pc # "idle" => ~bad)
         /\ (pc = "fill" => need <= Limit /\ pos - start <= Limit /\ left = (pos + need) - inpos)
         /\ (pc = "skip" => inpos = pos /\ buf = <<>> /\ left <= need /\ goal = pos + left)
         /\ (pc \in {"ensure", "fill"} => goal = pos + need)
BY DEF ForwardInv, Forward!TypeOK, Forward!BufferIsStream, Forward!BufferBounded, Consecutive

LEMMA ForwardIntro ==
  ASSUME inpos' \in 0..StreamLen, start' \in Nat, pos' \in 0..StreamLen,
         buf' \in Seq(Nat), seen' \in Seq(Nat),
         pc' \in {"idle", "ensure", "fill", "skip"},
         need' \in Nat, left' \in Nat, bad' \in BOOLEAN, goal' \in Nat,
         Consecutive(buf', start'),
         pc' # "skip" /\ ~bad' => inpos' = start' + Len(buf'),
         start' <= pos', pos' <= inpos',
         Len(buf') <= 2 * Limit,
         pc' \in {"idle", "ensure"} => Len(buf') <= Limit \/ bad',
         pc' # "idle" => ~bad',
         pc' = "fill" => need' <= Limit /\ pos' - start' <= Limit
                         /\ left' = (pos' + need') - inpos',
         pc' = "skip" => inpos' = pos' /\ buf' = <<>> /\ left' <= need' /\ goal' = pos' + left',
         pc' \in {"ensure", "fill"} => goal' = pos' + need'
  PROVE  ForwardInv'
BY DEF ForwardInv, Forward!TypeOK, Forward!BufferIsStream, Forward!BufferBounded, Consecutive

LEMMA ForwardStart == Forward!Init => ForwardInv
<1> SUFFICES ASSUME Forward!Init PROVE ForwardInv
  OBVIOUS
<1>1. <<>> \in Seq(Nat) /\ Len(<<>>) = 0 /\ StreamLen \in Nat /\ BufferSize \in Nat /\ Limit \in Nat
  BY CursorAssumption
<1>2. /\ inpos = 0 /\ buf = <<>> /\ start = 0 /\ pos = 0 /\ pc = "ensure"
      /\ need = BufferSize /\ left = 0 /\ seen = <<>> /\ bad = FALSE /\ goal = BufferSize
  BY DEF Forward!Init, Forward!Prefill
<1>3. Forward!TypeOK
  <2>1. /\ inpos \in 0..StreamLen /\ start \in Nat /\ pos \in 0..StreamLen
        /\ need \in Nat /\ left \in Nat /\ goal \in Nat /\ pc \in {"idle", "ensure", "fill", "skip"}
    BY <1>1, <1>2
  <2>2. buf \in Seq(Nat) /\ seen \in Seq(Nat) /\ bad \in BOOLEAN
    BY <1>1, <1>2
  <2> QED BY <2>1, <2>2 DEF Forward!TypeOK
<1>4. Forward!BufferIsStream /\ Forward!BufferBounded
  BY <1>1, <1>2 DEF Forward!BufferIsStream, Forward!BufferBounded
<1>5. goal = pos + need
  BY <1>1, <1>2
<1> QED BY <1>2, <1>3, <1>4, <1>5 DEF ForwardInv

(* What a call that drops the bytes in front of the position leaves.        *)
LEMMA DropKeeps ==
  ASSUME ForwardInv, Forward!Drop, pos' = pos, inpos' = inpos, inpos = start + Len(buf)
  PROVE  /\ buf' \in Seq(Nat) /\ Consecutive(buf', start') /\ start' = pos
         /\ Len(buf') = inpos - pos
<1>1. pos - start \in Nat /\ pos - start <= Len(buf)
  BY ForwardFacts
<1>2. buf' = SubSeq(buf, (pos - start) + 1, Len(buf)) /\ start' = pos
  BY DEF Forward!Drop, Forward!Offset
<1> DEFINE k == pos - start
<1>3. buf' = SubSeq(buf, k + 1, Len(buf))
  BY <1>2
<1>7. start + k = pos
  BY ForwardFacts
<1> HIDE DEF k
<1>4. k \in Nat /\ k <= Len(buf)
  BY <1>1 DEF k
<1>5. buf' \in Seq(Nat) /\ Len(buf') = Len(buf) - k /\ Consecutive(buf', start + k)
  BY <1>3, <1>4, ForwardFacts, RunEnds
<1>6. inpos - pos = Len(buf) - k
  BY <1>1, ForwardFacts DEF k
<1> QED BY <1>2, <1>3, <1>5, <1>6, <1>7

LEMMA ForwardRefuses ==
  ASSUME ForwardInv, Forward!TooMuch \/ Forward!FillFails \/ Forward!SkipFails
  PROVE  ForwardInv'
<1>1. /\ bad' = TRUE /\ pc' = "idle"
      /\ UNCHANGED <<inpos, seen, need, left, buf, start, pos, goal>>
  BY DEF Forward!TooMuch, Forward!FillFails, Forward!SkipFails, Forward!Fail
<1> QED BY <1>1, ForwardFacts, ForwardIntro

LEMMA ForwardEnsures ==
  ASSUME ForwardInv, (\E n \in Forward!Sizes : Forward!Ensure(n))
                       \/ Forward!Enough \/ Forward!Short \/ Forward!FillEnds
  PROVE  ForwardInv'
<1>1. ASSUME NEW n \in Forward!Sizes, Forward!Ensure(n) PROVE ForwardInv'
  <2>1. n \in Nat
    BY CursorAssumption DEF Forward!Sizes
  <2> QED BY <1>1, <2>1, ForwardFacts, ForwardIntro DEF Forward!Ensure, Forward!Idle
<1>2. CASE Forward!Enough \/ Forward!FillEnds
  <2>1. /\ Forward!Drop /\ pc' = "idle"
        /\ UNCHANGED <<inpos, pos, need, left, seen, bad, goal>>
        /\ pc \in {"ensure", "fill"} /\ ~bad
    BY <1>2, ForwardFacts DEF Forward!Enough, Forward!FillEnds
  <2>2. inpos = start + Len(buf)
    BY <2>1, ForwardFacts
  <2>3. buf' \in Seq(Nat) /\ Consecutive(buf', start') /\ start' = pos /\ Len(buf') = inpos - pos
    BY <2>1, <2>2, DropKeeps
  <2>4. Len(buf') <= Limit
    <3>1. CASE Forward!Enough
      BY <3>1, <2>2, <2>3, ForwardFacts, CursorAssumption DEF Forward!Enough
    <3>2. CASE Forward!FillEnds
      BY <3>2, <2>2, <2>3, ForwardFacts, CursorAssumption DEF Forward!FillEnds
    <3> QED BY <1>2, <3>1, <3>2
  <2>5. Len(buf') \in Nat /\ Limit \in Nat
    BY <2>3, CursorAssumption
  <2> QED BY <2>1, <2>2, <2>3, <2>4, <2>5, ForwardFacts, ForwardIntro
<1>3. CASE Forward!Short
  <2>1. /\ left' = (pos + need) - (start + Len(buf)) /\ pc' = "fill" /\ pc = "ensure"
        /\ need <= Limit /\ (pos - start) + need > Len(buf)
        /\ UNCHANGED <<inpos, buf, start, pos, need, seen, bad, goal>>
    BY <1>3 DEF Forward!Short, Forward!Want, Forward!Offset
  <2> QED BY <2>1, ForwardFacts, ForwardIntro, CursorAssumption
<1> QED BY <1>1, <1>2, <1>3

LEMMA ForwardFills ==
  ASSUME ForwardInv, NEW k \in 1..BufferSize, Forward!Fill(k)
  PROVE  ForwardInv'
<1>1. /\ pc = "fill" /\ left > 0 /\ k <= left /\ inpos + k <= StreamLen
      /\ inpos' = inpos + k /\ left' = left - k
      /\ buf' = buf \o [i \in 1..k |-> inpos + i - 1]
      /\ UNCHANGED <<start, pos, pc, need, seen, bad, goal>>
  BY ForwardFacts, CursorAssumption DEF Forward!Fill, Forward!ReadNext, Forward!Smaller
<1>2. k \in Nat /\ inpos = start + Len(buf)
  BY <1>1, ForwardFacts, CursorAssumption
<1>3. buf' \in Seq(Nat) /\ Len(buf') = Len(buf) + k /\ Consecutive(buf', start)
  <2>1. buf' = buf \o [i \in 1..k |-> (start + Len(buf)) + i - 1]
    BY <1>1, <1>2
  <2>2. buf \in Seq(Nat) /\ start \in Nat /\ Consecutive(buf, start)
    BY ForwardFacts
  <2> QED BY <1>2, <2>1, <2>2, RunGrows
<1>4. /\ inpos \in Nat /\ start \in Nat /\ pos \in Nat /\ left \in Nat /\ need \in Nat
      /\ Len(buf) \in Nat /\ StreamLen \in Nat /\ Limit \in Nat
      /\ start <= pos /\ pos <= inpos /\ need <= Limit /\ pos - start <= Limit
      /\ left = (pos + need) - inpos
  BY <1>1, ForwardFacts, CursorAssumption
<1>5. /\ inpos' \in 0..StreamLen /\ left' \in Nat /\ inpos' = start' + Len(buf') /\ pos' <= inpos'
      /\ left' = (pos' + need') - inpos'
  BY <1>1, <1>2, <1>3, <1>4
<1>6. Len(buf') <= 2 * Limit
  <2>1. Len(buf') = inpos' - start /\ inpos' <= pos + need
    BY <1>1, <1>2, <1>3, <1>4
  <2> QED BY <2>1, <1>1, <1>4
<1> QED BY <1>1, <1>3, <1>4, <1>5, <1>6, ForwardFacts, ForwardIntro

LEMMA ForwardReads ==
  ASSUME ForwardInv, NEW n \in Forward!Sizes, Forward!Slice(n) \/ Forward!Advance(n)
  PROVE  ForwardInv'
<1>1. n \in Nat
  BY CursorAssumption DEF Forward!Sizes
<1>2. CASE Forward!Slice(n)
  <2>1. /\ seen' = SubSeq(buf, (pos - start) + 1, (pos - start) + n)
        /\ (pos - start) + n <= Len(buf)
        /\ UNCHANGED <<inpos, buf, start, pos, pc, need, left, bad, goal>>
    BY <1>1, <1>2, ForwardFacts DEF Forward!Slice, Forward!Avail, Forward!Offset
  <2>2. seen' \in Seq(Nat)
    <3> DEFINE k == pos - start
    <3>1. k \in Nat
      BY ForwardFacts
    <3>2. k + n <= Len(buf) /\ seen' = SubSeq(buf, k + 1, k + n)
      BY <2>1
    <3> HIDE DEF k
    <3> QED BY <1>1, <3>1, <3>2, ForwardFacts, RunStarts
  <2> QED BY <2>1, <2>2, ForwardFacts, ForwardIntro
<1>3. CASE Forward!Advance(n)
  <2>1. /\ pc = "idle" /\ ~bad /\ (pos - start) + n <= Len(buf) /\ pos' = pos + n /\ goal' = pos + n
        /\ UNCHANGED <<inpos, buf, start, pc, need, left, seen, bad>>
    BY <1>1, <1>3, ForwardFacts
       DEF Forward!Advance, Forward!Avail, Forward!Offset, Forward!Idle
  <2>2. /\ pos' \in 0..StreamLen /\ goal' \in Nat /\ start <= pos' /\ pos' <= inpos
        /\ inpos = start + Len(buf) /\ Len(buf) <= Limit
    <3>1. /\ inpos \in 0..StreamLen /\ start \in Nat /\ pos \in Nat /\ Len(buf) \in Nat
          /\ inpos = start + Len(buf) /\ start <= pos /\ Len(buf) <= Limit
      BY <2>1, ForwardFacts
    <3> QED BY <1>1, <2>1, <3>1, CursorAssumption
  <2> QED BY <2>1, <2>2, ForwardFacts, ForwardIntro
<1> QED BY <1>2, <1>3

LEMMA ForwardSkips ==
  ASSUME ForwardInv,
         \/ \E n \in Forward!Sizes : Forward!SkipBuffered(n) \/ Forward!SkipBeyond(n)
         \/ \E k \in 1..BufferSize : Forward!Skip(k)
         \/ Forward!SkipEnds
  PROVE  ForwardInv'
<1>1. ASSUME NEW n \in Forward!Sizes, Forward!SkipBuffered(n) PROVE ForwardInv'
  <2>1. n \in Nat
    BY CursorAssumption DEF Forward!Sizes
  <2>2. /\ pc = "idle" /\ ~bad /\ (pos - start) + n <= Len(buf) /\ pos' = pos + n /\ goal' = pos + n
        /\ buf' = SubSeq(buf, (pos - start) + n + 1, Len(buf)) /\ start' = pos + n
        /\ UNCHANGED <<inpos, pc, need, left, seen, bad>>
    BY <1>1, <2>1, ForwardFacts
       DEF Forward!SkipBuffered, Forward!Avail, Forward!Offset, Forward!Idle
  <2> DEFINE k == (pos - start) + n
  <2>3. k \in Nat /\ k <= Len(buf) /\ start + k = pos + n
    <3>1. pos - start \in Nat /\ start \in Nat /\ pos \in Nat
      BY ForwardFacts
    <3> QED BY <2>1, <2>2, <3>1
  <2>5. buf' = SubSeq(buf, k + 1, Len(buf))
    BY <2>2
  <2> HIDE DEF k
  <2>4. buf' \in Seq(Nat) /\ Len(buf') = Len(buf) - k /\ Consecutive(buf', start + k)
    BY <2>3, <2>5, ForwardFacts, RunEnds
  <2>6. /\ pos' \in 0..StreamLen /\ start' \in Nat /\ start' = pos' /\ pos' <= inpos'
        /\ inpos' = start' + Len(buf') /\ Len(buf') <= Limit
    <3>1. /\ inpos \in 0..StreamLen /\ start \in Nat /\ pos \in Nat /\ Len(buf) \in Nat
          /\ inpos = start + Len(buf) /\ start <= pos /\ pos <= inpos /\ Len(buf) <= Limit
      BY <2>2, ForwardFacts
    <3>2. /\ pos' = start + k /\ start' = start + k /\ Len(buf') = Len(buf) - k
          /\ k \in Nat /\ k <= Len(buf) /\ inpos' = inpos
      BY <2>2, <2>3, <2>4
    <3> QED BY <3>1, <3>2, CursorAssumption
  <2>7. buf' \in Seq(Nat) /\ Consecutive(buf', start') /\ Len(buf') <= 2 * Limit
    BY <2>2, <2>3, <2>4, <2>6, CursorAssumption
  <2> QED BY <2>2, <2>6, <2>7, ForwardFacts, ForwardIntro
<1>2. ASSUME NEW n \in Forward!Sizes, Forward!SkipBeyond(n) PROVE ForwardInv'
  <2>1. n \in Nat
    BY CursorAssumption DEF Forward!Sizes
  <2>2. /\ pc = "idle" /\ ~bad /\ inpos = start + Len(buf)
        /\ pos' = inpos /\ start' = inpos /\ buf' = <<>>
        /\ need' = n /\ left' = n - (inpos - pos) /\ n > inpos - pos /\ pc' = "skip"
        /\ goal' = pos + n
        /\ UNCHANGED <<inpos, seen, bad>>
    BY <1>2, <2>1, ForwardFacts
       DEF Forward!SkipBeyond, Forward!Avail, Forward!Offset, Forward!Idle, Forward!StillToSkip
  <2>3. /\ Consecutive(buf', start') /\ buf' \in Seq(Nat)
        /\ Len(buf') <= Limit /\ Len(buf') <= 2 * Limit
    <3>1. <<>> \in Seq(Nat) /\ Len(<<>>) = 0
      OBVIOUS
    <3>2. Consecutive(<<>>, inpos)
      BY DEF Consecutive
    <3> QED BY <2>2, <3>1, <3>2, CursorAssumption
  <2>4. /\ inpos' \in 0..StreamLen /\ start' \in Nat /\ pos' \in 0..StreamLen /\ seen' \in Seq(Nat)
        /\ left' \in Nat /\ need' \in Nat /\ left' <= need' /\ ~bad'
        /\ start' = pos' /\ pos' = inpos' /\ goal' \in Nat /\ goal' = pos' + left'
    <3>1. /\ inpos \in 0..StreamLen /\ pos \in Nat /\ seen \in Seq(Nat) /\ StreamLen \in Nat /\ pos <= inpos
      BY ForwardFacts, CursorAssumption
    <3>2. n > inpos - pos /\ inpos \in Nat
      BY <2>2, <3>1, CursorAssumption
    <3>3. /\ n - (inpos - pos) \in Nat /\ n - (inpos - pos) <= n
          /\ pos + n \in Nat /\ pos + n = inpos + (n - (inpos - pos))
      BY <2>1, <3>1, <3>2
    <3> QED BY <2>1, <2>2, <3>1, <3>3
  <2>5. pc' = "skip" /\ inpos' = pos' /\ buf' = <<>>
    BY <2>2
  <2>6. /\ pc' \in {"idle", "ensure", "fill", "skip"} /\ pc' \notin {"idle", "ensure", "fill"}
        /\ start' <= pos' /\ pos' <= inpos' /\ bad' \in BOOLEAN
    BY <2>2, <2>4, <2>5, ForwardFacts, CursorAssumption
  <2> QED BY <2>3, <2>4, <2>5, <2>6, ForwardIntro
<1>3. ASSUME NEW k \in 1..BufferSize, Forward!Skip(k) PROVE ForwardInv'
  <2>1. /\ pc = "skip" /\ k <= left /\ inpos + k <= StreamLen
        /\ inpos' = inpos + k /\ left' = left - k /\ pos' = pos + k
        /\ UNCHANGED <<start, buf, pc, need, seen, bad, goal>>
    BY <1>3, ForwardFacts, CursorAssumption DEF Forward!Skip, Forward!ReadNext, Forward!Smaller
  <2> QED BY <2>1, ForwardFacts, ForwardIntro, CursorAssumption
<1>4. CASE Forward!SkipEnds
  <2>1. /\ pc = "skip" /\ start' = pos /\ pc' = "idle"
        /\ UNCHANGED <<inpos, buf, pos, need, left, seen, bad, goal>>
    BY <1>4 DEF Forward!SkipEnds
  <2>2. Consecutive(buf', start') /\ Len(buf') = 0
    BY <2>1, ForwardFacts DEF Consecutive
  <2> QED BY <2>1, <2>2, ForwardFacts, ForwardIntro, CursorAssumption
<1> QED BY <1>1, <1>2, <1>3, <1>4

LEMMA ForwardKeeps == ForwardInv /\ Forward!Next => ForwardInv'
BY ForwardRefuses, ForwardEnsures, ForwardFills, ForwardReads, ForwardSkips
   DEF Forward!Next, Forward!Work
-----------------------------------------------------------------------------
(* The window cursor.                                                       *)
LEMMA WindowFacts ==
  ASSUME WindowInv
  PROVE  /\ start \in Nat /\ pos \in 0..StreamLen /\ buf \in Seq(Nat) /\ Len(buf) \in Nat
         /\ pc \in {"open", "idle", "refill"} /\ need \in Nat
         /\ seen \in Seq(Nat) /\ bad \in BOOLEAN /\ goal \in Nat
         /\ Consecutive(buf, start) /\ start <= pos /\ pos <= start + Len(buf)
         /\ inpos = 0 /\ left = 0
         /\ start + Len(buf) <= StreamLen /\ Len(buf) <= Most
         /\ (pc # "idle" => ~bad)
         /\ (pc = "open" => need <= BufferSize /\ need <= StreamLen /\ pos = 0)
         /\ (pc = "refill" => need <= Limit /\ need <= StreamLen - pos)
BY DEF WindowInv, Window!TypeOK, Window!WindowIsStream, Consecutive

LEMMA WindowIntro ==
  ASSUME start' \in Nat, pos' \in 0..StreamLen, buf' \in Seq(Nat),
         pc' \in {"open", "idle", "refill"}, need' \in Nat,
         seen' \in Seq(Nat), bad' \in BOOLEAN, goal' \in Nat,
         Consecutive(buf', start'), start' <= pos', pos' <= start' + Len(buf'),
         inpos' = 0, left' = 0,
         start' + Len(buf') <= StreamLen, Len(buf') <= Most,
         pc' # "idle" => ~bad',
         pc' = "open" => need' <= BufferSize /\ need' <= StreamLen /\ pos' = 0,
         pc' = "refill" => need' <= Limit /\ need' <= StreamLen - pos'
  PROVE  WindowInv'
BY DEF WindowInv, Window!TypeOK, Window!WindowIsStream, Consecutive, Most

LEMMA WindowStart == Window!Init /\ inpos = 0 /\ left = 0 => WindowInv
<1> SUFFICES ASSUME Window!Init, inpos = 0, left = 0 PROVE WindowInv
  OBVIOUS
<1>1. <<>> \in Seq(Nat) /\ Len(<<>>) = 0 /\ StreamLen \in Nat /\ BufferSize \in Nat /\ Limit \in Nat
  BY CursorAssumption
<1>2. /\ buf = <<>> /\ start = 0 /\ pos = 0 /\ pc = "open" /\ seen = <<>> /\ bad = FALSE
      /\ need \in Nat /\ need <= BufferSize /\ need <= StreamLen /\ goal = need
  BY <1>1 DEF Window!Init, Window!Smaller
<1>3. Window!TypeOK
  <2>1. /\ start \in Nat /\ pos \in 0..StreamLen /\ need \in Nat /\ goal \in Nat
        /\ pc \in {"open", "idle", "refill"}
    BY <1>1, <1>2
  <2>2. buf \in Seq(Nat) /\ seen \in Seq(Nat) /\ bad \in BOOLEAN
    BY <1>1, <1>2
  <2> QED BY <2>1, <2>2 DEF Window!TypeOK
<1>4. Window!WindowIsStream /\ start + Len(buf) <= StreamLen /\ Len(buf) <= Most
  BY <1>1, <1>2 DEF Window!WindowIsStream, Most
<1> QED BY <1>2, <1>3, <1>4 DEF WindowInv

(* What is in the window from the position on.                              *)
LEMMA WindowAhead ==
  ASSUME WindowInv
  PROVE  Window!Avail = (start + Len(buf)) - pos /\ Window!Avail \in Nat
         /\ Window!Remaining = StreamLen - pos /\ Window!Remaining \in Nat
BY WindowFacts, CursorAssumption DEF Window!Avail, Window!Remaining

LEMMA WindowKeeps == WindowInv /\ Window!Next /\ UNCHANGED <<inpos, left>> => WindowInv'
<1> SUFFICES ASSUME WindowInv, Window!Next, inpos' = inpos, left' = left PROVE WindowInv'
  OBVIOUS
<1>1. CASE Window!Refill
  <2>1. /\ buf' = [i \in 1..Window!Request |-> pos + i - 1] /\ start' = pos /\ pc' = "idle"
        /\ UNCHANGED <<pos, need, seen, bad, goal>> /\ pc \in {"open", "refill"}
    BY <1>1 DEF Window!Refill, Window!NewOffset
  <2>2. Window!Request \in Nat /\ pos + Window!Request <= StreamLen /\ Window!Request <= Most
    BY <2>1, WindowFacts, CursorAssumption
       DEF Window!Request, Window!Smaller, Window!Larger, Window!Remaining, Most
  <2>3. buf' \in Seq(Nat) /\ Len(buf') = Window!Request /\ Consecutive(buf', pos)
    BY <2>1, <2>2, WindowFacts DEF Consecutive
  <2> QED BY <2>1, <2>2, <2>3, WindowFacts, WindowIntro
<1>2. ASSUME NEW n \in Window!Sizes,
             \/ Window!EnsureFails(n) \/ Window!EnsureHolds(n)
             \/ Window!EnsureReads(n) \/ Window!SkipFails(n)
      PROVE  WindowInv'
  <2>1. n \in Nat
    BY CursorAssumption DEF Window!Sizes
  <2>0. pos \in Nat /\ StreamLen \in Nat /\ bad \in BOOLEAN
    BY WindowFacts, CursorAssumption
  <2>2. /\ need' = n /\ goal' = pos + n /\ UNCHANGED <<buf, start, pos, seen>> /\ bad' \in BOOLEAN
        /\ pc = "idle" /\ (pc' = "idle" \/ (~bad' /\ pc' = "refill" /\ n <= Limit /\ n <= StreamLen - pos))
    <3>1. CASE Window!EnsureFails(n) \/ Window!SkipFails(n)
      BY <3>1 DEF Window!EnsureFails, Window!SkipFails, Window!Fails, Window!Idle
    <3>2. CASE Window!EnsureHolds(n) \/ Window!EnsureReads(n)
      BY <2>0, <3>2 DEF Window!EnsureHolds, Window!EnsureReads, Window!Idle, Window!Remaining
    <3> QED BY <1>2, <3>1, <3>2
  <2> QED BY <2>1, <2>2, WindowFacts, WindowIntro
<1>3. ASSUME NEW n \in Window!Sizes, Window!Slice(n) PROVE WindowInv'
  <2> DEFINE k == pos - start
  <2>1. n \in Nat /\ k \in Nat /\ k + n <= Len(buf)
    BY <1>3, WindowFacts, WindowAhead, CursorAssumption DEF Window!Slice, Window!Sizes
  <2>2. /\ seen' = SubSeq(buf, k + 1, k + n) /\ UNCHANGED <<buf, start, pos, pc, need, bad, goal>>
    BY <1>3 DEF Window!Slice
  <2> HIDE DEF k
  <2>3. seen' \in Seq(Nat)
    BY <2>1, <2>2, WindowFacts, RunStarts
  <2> QED BY <2>2, <2>3, WindowFacts, WindowIntro
<1>4. ASSUME NEW n \in Window!Sizes, Window!Advance(n) \/ Window!Skip(n) PROVE WindowInv'
  <2>1. n \in Nat /\ pc = "idle" /\ pos' = pos + n /\ goal' = pos + n /\ UNCHANGED <<pc, need, seen, bad>>
    BY <1>4, CursorAssumption DEF Window!Advance, Window!Skip, Window!Sizes, Window!Idle
  <2>2. CASE UNCHANGED <<buf, start>> /\ n <= Window!Avail
    <3>1. /\ start \in Nat /\ pos \in 0..StreamLen /\ Len(buf) \in Nat /\ StreamLen \in Nat
          /\ start <= pos /\ start + Len(buf) <= StreamLen /\ n <= (start + Len(buf)) - pos
      BY <2>2, WindowAhead, WindowFacts, CursorAssumption
    <3>2. pos' \in 0..StreamLen /\ start' <= pos' /\ pos' <= start' + Len(buf')
      BY <2>1, <2>2, <3>1
    <3> QED BY <2>1, <2>2, <3>2, WindowFacts, WindowIntro
  <2>3. CASE buf' = <<>> /\ start' = pos + n /\ n <= Window!Remaining
    <3>1. buf' \in Seq(Nat) /\ Len(buf') = 0 /\ Consecutive(buf', start') /\ 0 <= Most
      BY <2>3, CursorAssumption DEF Consecutive, Most
    <3> QED BY <2>1, <2>3, <3>1, WindowAhead, WindowFacts, WindowIntro, CursorAssumption
  <2> QED BY <1>4, <2>2, <2>3 DEF Window!Advance, Window!Skip, Window!SkipInside, Window!SkipPast
<1> QED BY <1>1, <1>2, <1>3, <1>4 DEF Window!Next
-----------------------------------------------------------------------------
LEMMA CursorStart == Init => CursorInv
BY ForwardStart, WindowStart DEF Init, CursorInv

LEMMA CursorStep == CursorInv /\ [Next]_vars => CursorInv'
<1> SUFFICES ASSUME CursorInv, [Next]_vars PROVE CursorInv'
  OBVIOUS
<1>1. CASE ForwardStep
  BY <1>1, ForwardKeeps DEF ForwardStep, CursorInv
<1>2. CASE WindowStep
  BY <1>2, WindowKeeps DEF WindowStep, CursorInv
<1>3. CASE UNCHANGED vars
  <2>1. UNCHANGED <<opened, inpos, buf, start, pos, pc, need, left, seen, bad, goal>>
    BY <1>3 DEF vars
  <2>2. CASE opened = "forward"
    <3>1. ForwardInv
      BY <2>2 DEF CursorInv
    <3> QED BY <2>1, <2>2, <3>1, ForwardFacts, ForwardIntro DEF CursorInv
  <2>3. CASE opened = "window"
    <3>1. WindowInv
      BY <2>3 DEF CursorInv
    <3> QED BY <2>1, <2>3, <3>1, WindowFacts, WindowIntro DEF CursorInv
  <2> QED BY <2>2, <2>3 DEF CursorInv
<1> QED BY <1>1, <1>2, <1>3 DEF Next

(* The inductive invariant holds in every state of either cursor.           *)
THEOREM CursorAlways == Spec => []CursorInv
BY CursorStart, CursorStep, PTL DEF Spec

(* The three counters and the buffer of either cursor stay in their ranges. *)
THEOREM CursorTypes == Spec => []TypeOK
<1>1. CursorInv => TypeOK
  BY DEF CursorInv, ForwardInv, WindowInv, TypeOK
<1> QED BY <1>1, CursorAlways, PTL

(* The bytes either cursor holds are the stream's, at the place it thinks.  *)
THEOREM CursorHoldsTheStream == Spec => []BufferIsStream
<1>1. CursorInv => BufferIsStream
  BY DEF CursorInv, ForwardInv, WindowInv, BufferIsStream
<1> QED BY <1>1, CursorAlways, PTL

(* max_buffer_size bounds what either cursor holds.                         *)
THEOREM CursorIsBounded == Spec => []BufferBounded
<1>1. CursorInv => BufferBounded
  BY DEF CursorInv, ForwardInv, WindowInv, BufferBounded, Most
<1> QED BY <1>1, CursorAlways, PTL
-----------------------------------------------------------------------------
(* The stream the caller sees.  What a step of a cursor has to do, to be a  *)
(* step of the stream:                                                      *)
LEMMA StreamFacts ==
  ASSUME CursorInv
  PROVE  /\ pos \in 0..StreamLen /\ need \in Nat /\ left \in Nat /\ goal \in Nat /\ bad \in BOOLEAN
         /\ (opened = "window" => pc # "skip")
<1>1. CASE opened = "forward"
  BY <1>1, ForwardFacts DEF CursorInv
<1>2. CASE opened = "window"
  BY <1>2, WindowFacts DEF CursorInv
<1> QED BY <1>1, <1>2 DEF CursorInv

LEMMA StreamFactsNext ==
  ASSUME CursorInv'
  PROVE  pos' \in 0..StreamLen /\ goal' \in Nat /\ (opened' = "window" => pc' # "skip")
BY DEF CursorInv, ForwardInv, WindowInv, Forward!TypeOK, Window!TypeOK

(* An operation that is asked for and moves nothing yet.                    *)
LEMMA StreamAsks ==
  ASSUME CursorInv', ~bad, pc # "skip", pc' # "skip", UNCHANGED <<pos, seen, bad>>
  PROVE  Stream!Next
<1>1. Stream!Ask
  BY StreamFactsNext DEF Stream!Ask
<1> QED BY <1>1 DEF Stream!Next

(* One that moves forward, and either has got where it was asked to or is a *)
(* skip that goes on.                                                       *)
LEMMA StreamTakes ==
  ASSUME CursorInv, CursorInv', ~bad, pos <= pos', pos' <= goal', UNCHANGED <<seen, bad>>,
         pc = "skip" => goal' = goal, pc' # "skip" => pos' = goal'
  PROVE  Stream!Next
<1>1. pos' \in pos..StreamLen
  BY StreamFacts, StreamFactsNext, CursorAssumption
<1>2. Stream!Take
  BY <1>1, StreamFactsNext DEF Stream!Take
<1> QED BY <1>2 DEF Stream!Next

LEMMA StreamLooks ==
  ASSUME CursorInv, NEW n \in Nat, ~bad, pc # "skip", pos + n <= StreamLen,
         seen' = Run(pos, n), UNCHANGED <<pos, pc, bad, goal>>
  PROVE  Stream!Next
<1>1. n \in 0..StreamLen
  BY StreamFacts, CursorAssumption
<1>2. Stream!Look(n)
  BY DEF Stream!Look, Run
<1> QED BY <1>1, <1>2 DEF Stream!Next

LEMMA StreamRefuses ==
  ASSUME CursorInv', ~bad, bad' = TRUE, pc' = "idle", UNCHANGED <<pos, seen>>,
         pc = "skip" => goal' = goal,
         goal' > StreamLen \/ (pc # "skip" /\ goal' > pos + Limit)
  PROVE  Stream!Next
<1>1. Stream!Refuse
  BY StreamFactsNext DEF Stream!Refuse
<1> QED BY <1>1 DEF Stream!Next

LEMMA ForwardRefines ==
  ASSUME CursorInv, CursorInv', opened = "forward", Forward!Next
  PROVE  [Stream!Next]_Stream!svars
<1> USE DEF Stream!svars
<1>0. ForwardInv
  BY DEF CursorInv
<1>1. CASE Forward!TooMuch \/ Forward!FillFails \/ Forward!SkipFails
  <2>1. /\ ~bad /\ bad' = TRUE /\ pc' = "idle" /\ UNCHANGED <<goal, pos, seen>>
    BY <1>0, <1>1, ForwardFacts DEF Forward!TooMuch, Forward!FillFails, Forward!SkipFails, Forward!Fail
  <2>2. /\ inpos \in Nat /\ pos \in Nat /\ need \in Nat /\ left \in Nat /\ goal \in Nat
        /\ StreamLen \in Nat /\ Limit \in Nat
        /\ (pc = "fill" => left = (pos + need) - inpos)
        /\ (pc = "skip" => inpos = pos /\ goal = pos + left)
        /\ (pc \in {"ensure", "fill"} => goal = pos + need)
    BY <1>0, ForwardFacts, CursorAssumption
  <2>3. \/ pc = "ensure" /\ need > Limit
        \/ left > 0 /\ inpos = StreamLen /\ pc \in {"fill", "skip"}
    BY <1>1 DEF Forward!TooMuch, Forward!FillFails, Forward!SkipFails, Forward!Exhausted
  <2>4. goal > StreamLen \/ (pc # "skip" /\ goal > pos + Limit)
    BY <2>2, <2>3
  <2> QED BY <2>1, <2>4, StreamRefuses
<1>2. CASE \/ Forward!Enough \/ Forward!Short \/ Forward!FillEnds
           \/ \E k \in 1..BufferSize : Forward!Fill(k)
  BY <1>2 DEF Forward!Enough, Forward!Short, Forward!FillEnds, Forward!Fill
<1>3. CASE Forward!SkipEnds
  <2>1. pc = "skip" /\ pc' = "idle" /\ left = 0 /\ UNCHANGED <<pos, seen, bad, goal>>
    BY <1>3 DEF Forward!SkipEnds
  <2>2. ~bad /\ pos \in Nat /\ goal = pos + 0
    BY <1>0, <2>1, ForwardFacts, CursorAssumption
  <2>3. pos' = goal' /\ pos <= pos' /\ pos' <= goal'
    BY <2>1, <2>2
  <2> QED BY <2>1, <2>2, <2>3, StreamTakes
<1>4. ASSUME NEW k \in 1..BufferSize, Forward!Skip(k) PROVE Stream!Next
  <2>1. /\ pc = "skip" /\ k <= left /\ pos' = pos + k /\ k \in Nat
        /\ UNCHANGED <<pc, seen, bad, goal>>
    BY <1>0, <1>4, ForwardFacts, CursorAssumption DEF Forward!Skip, Forward!ReadNext, Forward!Smaller
  <2>2. ~bad /\ pos \in Nat /\ left \in Nat /\ goal = pos + left
    BY <1>0, <2>1, ForwardFacts, CursorAssumption
  <2>3. pos <= pos' /\ pos' <= goal'
    BY <2>1, <2>2
  <2> QED BY <2>1, <2>2, <2>3, StreamTakes
<1>5. ASSUME NEW n \in Forward!Sizes,
             Forward!Advance(n) \/ Forward!SkipBuffered(n) \/ Forward!SkipBeyond(n)
      PROVE  Stream!Next
  <2>1. n \in Nat
    BY CursorAssumption DEF Forward!Sizes
  <2>2. ~bad /\ pc = "idle" /\ goal' = pos + n /\ UNCHANGED <<seen, bad>>
    BY <1>5 DEF Forward!Advance, Forward!SkipBuffered, Forward!SkipBeyond, Forward!Idle
  <2>3. Forward!Avail \in Nat /\ pos \in Nat
    BY <1>0, <2>2, ForwardFacts DEF Forward!Avail, Forward!Offset
  <2>4. \/ pos' = pos + n
        \/ pc' = "skip" /\ pos' = pos + Forward!Avail /\ n > Forward!Avail
    BY <1>5 DEF Forward!Advance, Forward!SkipBuffered, Forward!SkipBeyond
  <2>5. pos <= pos' /\ pos' <= goal' /\ (pc' # "skip" => pos' = goal')
    BY <2>1, <2>2, <2>3, <2>4
  <2> QED BY <2>2, <2>5, StreamTakes
<1>6. ASSUME NEW n \in Forward!Sizes, Forward!Ensure(n) PROVE Stream!Next
  <2>1. ~bad /\ pc = "idle" /\ pc' = "ensure" /\ UNCHANGED <<pos, seen, bad>>
    BY <1>6 DEF Forward!Ensure, Forward!Idle
  <2> QED BY <2>1, StreamAsks
<1>7. ASSUME NEW n \in Forward!Sizes, Forward!Slice(n) PROVE Stream!Next
  <2> DEFINE k == pos - start
  <2>0. /\ start \in Nat /\ pos \in Nat /\ Len(buf) \in Nat /\ inpos \in 0..StreamLen
        /\ start <= pos /\ (pc # "skip" /\ ~bad => inpos = start + Len(buf)) /\ StreamLen \in Nat
    BY <1>0, ForwardFacts, CursorAssumption
  <2>1. /\ n \in Nat /\ k \in Nat /\ k + n <= Len(buf) /\ ~bad /\ pc # "skip"
        /\ start + k = pos /\ pos + n <= StreamLen
    <3>1. n \in Nat /\ ~bad /\ pc = "idle" /\ n <= Len(buf) - (pos - start)
      BY <1>7, CursorAssumption
         DEF Forward!Slice, Forward!Sizes, Forward!Avail, Forward!Offset, Forward!Idle
    <3> QED BY <2>0, <3>1
  <2>2. seen' = SubSeq(buf, k + 1, k + n) /\ UNCHANGED <<pos, pc, bad, goal>>
    BY <1>7 DEF Forward!Slice, Forward!Offset
  <2> HIDE DEF k
  <2>3. seen' = Run(pos, n)
    <3>1. buf \in Seq(Nat) /\ start \in Nat /\ Consecutive(buf, start)
      BY <1>0, ForwardFacts
    <3>2. SubSeq(buf, k + 1, k + n) = Run(start + k, n)
      BY <2>1, <3>1, RunStarts
    <3> QED BY <2>1, <2>2, <3>2
  <2> QED BY <2>1, <2>2, <2>3, StreamLooks
<1> QED BY <1>1, <1>2, <1>3, <1>4, <1>5, <1>6, <1>7 DEF Forward!Next, Forward!Work

LEMMA WindowRefines ==
  ASSUME CursorInv, CursorInv', opened = "window", opened' = "window", Window!Next
  PROVE  [Stream!Next]_Stream!svars
<1>0. WindowInv /\ pc # "skip" /\ pc' # "skip"
  BY StreamFacts, StreamFactsNext DEF CursorInv
<1>1. CASE Window!Refill
  BY <1>0, <1>1 DEF Window!Refill, Stream!svars
<1>2. ASSUME NEW n \in Window!Sizes, Window!EnsureFails(n) \/ Window!SkipFails(n) PROVE Stream!Next
  <2>1. n \in Nat /\ pos \in Nat /\ Limit \in Nat /\ StreamLen \in Nat
    BY <1>0, WindowFacts, CursorAssumption DEF Window!Sizes
  <2>2. /\ ~bad /\ bad' = TRUE /\ pc' = "idle" /\ goal' = pos + n /\ UNCHANGED <<pos, seen>>
        /\ (n > Limit \/ n > Window!Remaining)
    BY <1>2 DEF Window!EnsureFails, Window!SkipFails, Window!Fails, Window!Idle
  <2>3. goal' > StreamLen \/ goal' > pos + Limit
    BY <2>1, <2>2 DEF Window!Remaining
  <2> QED BY <1>0, <2>2, <2>3, StreamRefuses
<1>3. ASSUME NEW n \in Window!Sizes, Window!EnsureHolds(n) \/ Window!EnsureReads(n) PROVE Stream!Next
  <2>1. ~bad /\ UNCHANGED <<pos, seen, bad>>
    BY <1>3 DEF Window!EnsureHolds, Window!EnsureReads, Window!Idle
  <2> QED BY <1>0, <2>1, StreamAsks
<1>4. ASSUME NEW n \in Window!Sizes, Window!Advance(n) \/ Window!Skip(n) PROVE Stream!Next
  <2>1. n \in Nat /\ pos \in Nat
    BY <1>0, WindowFacts, CursorAssumption DEF Window!Sizes
  <2>2. ~bad /\ pos' = pos + n /\ goal' = pos + n /\ UNCHANGED <<seen, bad>>
    BY <1>4 DEF Window!Advance, Window!Skip, Window!Idle
  <2>3. pos <= pos' /\ pos' <= goal' /\ pos' = goal'
    BY <2>1, <2>2
  <2> QED BY <1>0, <2>2, <2>3, StreamTakes
<1>5. ASSUME NEW n \in Window!Sizes, Window!Slice(n) PROVE Stream!Next
  <2> DEFINE k == pos - start
  <2>1. n \in Nat /\ ~bad /\ n <= Window!Avail
    BY <1>5, CursorAssumption DEF Window!Slice, Window!Sizes, Window!Idle
  <2>2. k \in Nat /\ k + n <= Len(buf) /\ start + k = pos /\ pos + n <= StreamLen
    <3>1. /\ start \in Nat /\ pos \in Nat /\ Len(buf) \in Nat /\ start <= pos
          /\ start + Len(buf) <= StreamLen /\ StreamLen \in Nat
      BY <1>0, WindowFacts, CursorAssumption
    <3>2. n <= (start + Len(buf)) - pos
      BY <1>0, <2>1, WindowAhead
    <3> QED BY <2>1, <3>1, <3>2
  <2>3. seen' = SubSeq(buf, k + 1, k + n) /\ UNCHANGED <<pos, pc, bad, goal>>
    BY <1>5 DEF Window!Slice
  <2> HIDE DEF k
  <2>4. seen' = Run(pos, n)
    <3>1. buf \in Seq(Nat) /\ start \in Nat /\ Consecutive(buf, start)
      BY <1>0, WindowFacts
    <3>2. SubSeq(buf, k + 1, k + n) = Run(start + k, n)
      BY <2>1, <2>2, <3>1, RunStarts
    <3> QED BY <2>2, <2>3, <3>2
  <2> QED BY <1>0, <2>1, <2>2, <2>3, <2>4, StreamLooks
<1> QED BY <1>1, <1>2, <1>3, <1>4, <1>5 DEF Window!Next

LEMMA StreamStart == Init => Stream!Init
<1> SUFFICES ASSUME Init PROVE Stream!Init
  OBVIOUS
<1>1. CursorInv
  BY CursorStart
<1>2. pos = 0 /\ seen = <<>> /\ bad = FALSE /\ pc # "skip"
  BY DEF Init, Forward!Init, Window!Init
<1> QED BY <1>1, <1>2, StreamFacts DEF Stream!Init

(* Whichever cursor the caller opened, what it sees is one stream of bytes: *)
(* every slice is the next bytes, the position moves as asked, and only a   *)
(* request beyond the stream or the limit fails.                            *)
THEOREM CursorImplementsStream == Spec => ImplementsByteStream
<1>1. CursorInv /\ CursorInv' /\ [Next]_vars => [Stream!Next]_Stream!svars
  <2> SUFFICES ASSUME CursorInv, CursorInv', [Next]_vars PROVE [Stream!Next]_Stream!svars
    OBVIOUS
  <2>1. CASE ForwardStep
    BY <2>1, ForwardRefines DEF ForwardStep
  <2>2. CASE WindowStep
    BY <2>2, WindowRefines DEF WindowStep
  <2>3. CASE UNCHANGED vars
    BY <2>3 DEF vars, Stream!svars
  <2> QED BY <2>1, <2>2, <2>3 DEF Next
<1> QED BY <1>1, StreamStart, CursorAlways, PTL DEF Spec, ImplementsByteStream, Stream!Spec
=============================================================================
