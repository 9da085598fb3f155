-------------------------- MODULE SequentialCursor --------------------------
(***************************************************************************)
(* SequentialCursor (wasm/async.rs): a buffered cursor over an input that   *)
(* can only be read forward, such as a gzip stream being decompressed.      *)
(*                                                                          *)
(* Three counters have to agree: where the input is (inpos), where the      *)
(* buffer starts (start) and where the reader is (pos).  The input is read  *)
(* piece by piece, each read an await, and may return less than it was      *)
(* asked for.                                                               *)
(***************************************************************************)
EXTENDS CursorConfig

VARIABLES
  inpos,     \* position of the input
  buf,       \* the buffer: the stream positions of its bytes
  start,     \* buffer_start_pos
  pos,       \* position
  pc,        \* what the cursor is doing
  need,      \* the argument of the operation
  left,      \* how much it still wants from the input
  seen,      \* the slice handed out last
  bad,       \* an operation returned an error
  goal       \* history: the position the operation is to reach

vars == <<inpos, buf, start, pos, pc, need, left, seen, bad, goal>>

Offset == pos - start
Avail  == Len(buf) - Offset

(* with_config fills the buffer before it returns: the first ensure.        *)
Prefill == BufferSize

Init ==
  /\ inpos = 0 /\ buf = <<>> /\ start = 0 /\ pos = 0
  /\ pc = "ensure" /\ need = Prefill /\ left = 0
  /\ seen = <<>> /\ bad = FALSE /\ goal = Prefill

Idle == pc = "idle" /\ ~bad

Ensure(n) ==
  /\ Idle /\ need' = n /\ pc' = "ensure" /\ goal' = pos + n
  /\ UNCHANGED <<inpos, buf, start, pos, left, seen, bad>>

Fail == bad' = TRUE /\ pc' = "idle" /\ UNCHANGED <<inpos, seen, need, left, goal>>

(* Everything in front of the position is dropped.                          *)
Drop == buf' = SubSeq(buf, Offset + 1, Len(buf)) /\ start' = pos

TooMuch ==
  /\ pc = "ensure" /\ need > Limit
  /\ Fail /\ UNCHANGED <<buf, start, pos>>

Enough ==
  /\ pc = "ensure" /\ need <= Limit /\ Offset + need <= Len(buf)
  /\ Drop /\ pc' = "idle"
  /\ UNCHANGED <<inpos, pos, need, left, seen, bad, goal>>

(* to_read, counted from the end of the buffer.                             *)
WantFromPos == need
Want        == (pos + need) - (start + Len(buf))

Short ==
  /\ pc = "ensure" /\ need <= Limit /\ Offset + need > Len(buf)
  /\ left' = Want /\ pc' = "fill"
  /\ UNCHANGED <<inpos, buf, start, pos, need, seen, bad, goal>>

Smaller(a, b) == IF a < b THEN a ELSE b

(* One read_next: some of the bytes asked for, and none only at the end.    *)
ReadNext(k) ==
  /\ left > 0 /\ k \in 1..Smaller(left, BufferSize) /\ inpos + k <= StreamLen
  /\ inpos' = inpos + k
  /\ left' = left - k

(* read_next gave nothing.                                                  *)
NeverExhausted == FALSE
Exhausted      == inpos = StreamLen

Fill(k) ==
  /\ pc = "fill" /\ ReadNext(k)
  /\ buf' = buf \o [i \in 1..k |-> inpos + i - 1]
  /\ UNCHANGED <<start, pos, pc, need, seen, bad, goal>>

FillEnds ==
  /\ pc = "fill" /\ left = 0
  /\ Drop /\ pc' = "idle"
  /\ UNCHANGED <<inpos, pos, need, left, seen, bad, goal>>

FillFails ==
  /\ pc = "fill" /\ left > 0 /\ Exhausted
  /\ Fail /\ UNCHANGED <<buf, start, pos>>

(* as_sync_slice and advance: callers stay within what they ensured.        *)
Slice(n) ==
  /\ Idle /\ n <= Avail
  /\ seen' = SubSeq(buf, Offset + 1, Offset + n)
  /\ UNCHANGED <<inpos, buf, start, pos, pc, need, left, bad, goal>>

Advance(n) ==
  /\ Idle /\ n <= Avail
  /\ pos' = pos + n /\ goal' = pos + n
  /\ UNCHANGED <<inpos, buf, start, pc, need, left, seen, bad>>

(* skip_bytes: first what is buffered, then straight from the input.        *)
SkipBuffered(n) ==
  /\ Idle /\ n > 0 /\ n <= Avail
  /\ pos' = pos + n /\ goal' = pos + n
  /\ buf' = SubSeq(buf, Offset + n + 1, Len(buf)) /\ start' = pos + n
  /\ UNCHANGED <<inpos, pc, need, left, seen, bad>>

SkipWhole(n)   == n
StillToSkip(n) == n - Avail

SkipBeyond(n) ==
  /\ Idle /\ n > Avail
  /\ pos' = pos + Avail /\ buf' = <<>> /\ start' = pos + Avail
  /\ need' = n /\ left' = StillToSkip(n) /\ pc' = "skip" /\ goal' = pos + n
  /\ UNCHANGED <<inpos, seen, bad>>

Skip(k) ==
  /\ pc = "skip" /\ ReadNext(k)
  /\ pos' = pos + k
  /\ UNCHANGED <<buf, start, pc, need, seen, bad, goal>>

SkipEnds ==
  /\ pc = "skip" /\ left = 0
  /\ start' = pos /\ pc' = "idle"
  /\ UNCHANGED <<inpos, buf, pos, need, left, seen, bad, goal>>

SkipFails ==
  /\ pc = "skip" /\ left > 0 /\ Exhausted
  /\ Fail /\ UNCHANGED <<buf, start, pos>>

Sizes == 0..(StreamLen + 1)

Work ==
  \/ TooMuch \/ Enough \/ Short \/ FillEnds \/ FillFails \/ SkipEnds \/ SkipFails
  \/ \E k \in 1..BufferSize : Fill(k) \/ Skip(k)

Next == Work \/ \E n \in Sizes :
          Ensure(n) \/ Slice(n) \/ Advance(n) \/ SkipBuffered(n) \/ SkipBeyond(n)

(* A pending operation is polled until it is done.                          *)
Spec == Init /\ [][Next]_vars /\ WF_vars(Work)
-----------------------------------------------------------------------------
TypeOK ==
  /\ inpos \in 0..StreamLen /\ start \in Nat /\ pos \in 0..StreamLen
  /\ buf \in Seq(Nat) /\ seen \in Seq(Nat)
  /\ pc \in {"idle", "ensure", "fill", "skip"}
  /\ need \in Nat /\ left \in Nat /\ bad \in BOOLEAN /\ goal \in Nat

(* Byte i of the buffer is byte start + i of the stream, and the input goes *)
(* on where the buffer ends.                                                *)
BufferIsStream ==
  /\ \A i \in 1..Len(buf) : buf[i] = start + i - 1
  /\ pc # "skip" /\ ~bad => inpos = start + Len(buf)
  /\ start <= pos /\ pos <= inpos

(* At rest the buffer holds no more than max_buffer_size, while it is being *)
(* filled no more than twice that: what was read already is dropped only    *)
(* afterwards.                                                              *)
BufferBounded ==
  /\ Len(buf) <= 2 * Limit
  /\ pc \in {"idle", "ensure"} => Len(buf) <= Limit \/ bad
=============================================================================
