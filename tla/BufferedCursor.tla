--------------------------- MODULE BufferedCursor ---------------------------
(***************************************************************************)
(* AsyncBufferedCursor (wasm/async.rs): a window over an input that can be  *)
(* read anywhere.  The window is replaced as a whole when it does not hold  *)
(* enough; a skip forgets it.  The input knows its length: parse_object_async *)
(* refuses one that does not.                                               *)
(***************************************************************************)
EXTENDS CursorConfig

VARIABLES
  buf,      \* the buffer: the stream positions of its bytes
  offset,   \* buffer_offset
  pos,      \* position
  pc,       \* idle, or what a read_at that is under way is for
  need,     \* the argument of the operation
  seen,     \* the slice handed out last
  bad,      \* an operation returned an error
  goal      \* history: the position the operation is to reach

vars == <<buf, offset, pos, pc, need, seen, bad, goal>>

Smaller(a, b) == IF a < b THEN a ELSE b
Larger(a, b)  == IF a > b THEN a ELSE b

(* available_in_buffer: the subtraction saturates.                          *)
Avail == IF Len(buf) > pos - offset THEN Len(buf) - (pos - offset) ELSE 0

Remaining == StreamLen - pos

(* new fills the window, clamped to the input.                              *)
Init ==
  /\ buf = <<>> /\ offset = 0 /\ pos = 0
  /\ pc = "open" /\ need = Smaller(BufferSize, StreamLen)
  /\ seen = <<>> /\ bad = FALSE /\ goal = need

Idle == pc = "idle" /\ ~bad

Fails(n) ==
  /\ bad' = TRUE /\ need' = n /\ goal' = pos + n
  /\ UNCHANGED <<buf, offset, pos, pc, seen>>

EnsureFails(n) ==
  /\ Idle /\ (n > Limit \/ n > Remaining)
  /\ Fails(n)

EnsureHolds(n) ==
  /\ Idle /\ n <= Limit /\ n <= Remaining /\ n <= Avail
  /\ need' = n /\ goal' = pos + n
  /\ UNCHANGED <<buf, offset, pos, pc, seen, bad>>

EnsureReads(n) ==
  /\ Idle /\ n <= Limit /\ n <= Remaining /\ n > Avail
  /\ need' = n /\ pc' = "refill" /\ goal' = pos + n
  /\ UNCHANGED <<buf, offset, pos, seen, bad>>

(* read_at gives all the bytes asked for; refill takes them for the new     *)
(* window.  A source that fails ends the parse and is left out.             *)
Request == IF pc = "open" THEN need ELSE Smaller(Larger(need, BufferSize), Remaining)

OldOffset == offset
NewOffset == pos

Refill ==
  /\ pc \in {"open", "refill"}
  /\ buf' = [i \in 1..Request |-> pos + i - 1] /\ offset' = NewOffset
  /\ pc' = "idle"
  /\ UNCHANGED <<pos, need, seen, bad, goal>>

Slice(n) ==
  /\ Idle /\ n <= Avail
  /\ seen' = SubSeq(buf, pos - offset + 1, pos - offset + n)
  /\ UNCHANGED <<buf, offset, pos, pc, need, bad, goal>>

Advance(n) ==
  /\ Idle /\ n <= Avail
  /\ pos' = pos + n /\ goal' = pos + n
  /\ UNCHANGED <<buf, offset, pc, need, seen, bad>>

SkipFails(n) ==
  /\ Idle /\ n > Avail /\ n > Remaining
  /\ Fails(n)

SkipInside(n) == n <= Avail /\ UNCHANGED <<buf, offset>>
SkipPast(n)   == n > Avail /\ n <= Remaining /\ buf' = <<>> /\ offset' = pos + n

Skip(n) ==
  /\ Idle /\ n > 0
  /\ SkipInside(n) \/ SkipPast(n)
  /\ pos' = pos + n /\ goal' = pos + n
  /\ UNCHANGED <<pc, need, seen, bad>>

Sizes == 0..(StreamLen + 1)

Next ==
  \/ Refill
  \/ \E n \in Sizes :
       \/ EnsureFails(n) \/ EnsureHolds(n) \/ EnsureReads(n)
       \/ Slice(n) \/ Advance(n) \/ SkipFails(n)
       \/ Skip(n)

(* A pending read is polled until it is done.                               *)
Spec == Init /\ [][Next]_vars /\ WF_vars(Refill)
-----------------------------------------------------------------------------
TypeOK ==
  /\ buf \in Seq(Nat) /\ offset \in Nat /\ pos \in 0..StreamLen
  /\ pc \in {"open", "idle", "refill"} /\ need \in Nat
  /\ seen \in Seq(Nat) /\ bad \in BOOLEAN /\ goal \in Nat

(* Byte i of the window is byte offset + i of the stream, and the position  *)
(* lies in the window or at its end.                                        *)
WindowIsStream ==
  /\ \A i \in 1..Len(buf) : buf[i] = offset + i - 1
  /\ offset <= pos /\ pos <= offset + Len(buf)
=============================================================================
