----------------------------- MODULE SpanReader -----------------------------
(***************************************************************************)
(* SpanReader: the bytes of a lazy vector's span, read a buffer at a time   *)
(* and handed out a field at a time.  The crate has it three times          *)
(* (chunk_iter.rs, wasm/async_chunk_iter.rs, extraction.rs).                *)
(*                                                                          *)
(* A byte is the position in the span it was read from, and positions count *)
(* from the start of the span.                                              *)
(***************************************************************************)
EXTENDS Naturals, Sequences

VARIABLES
  pos,     \* up to where the input has been read
  buf,     \* buf[..buf_len]
  bufPos,  \* buf_pos: how many bytes of buf have been handed out
  got      \* the bytes of the record being read

rvars == <<pos, buf, bufPos, got>>

Least(a, b) == IF a < b THEN a ELSE b

(* n bytes of the input, from position p on.                                *)
ReadAt(p, n) == [k \in 1..n |-> p + k - 1]

NewReader == pos = 0 /\ buf = <<>> /\ bufPos = 0 /\ got = <<>>

Exhausted == bufPos = Len(buf)

(* fill, called with nothing left in the buffer.                            *)
Fill(end, chunkSize) ==
  /\ Exhausted /\ pos < end
  /\ LET n == Least(end - pos, chunkSize) IN
       buf' = ReadAt(pos, n) /\ pos' = pos + n
  /\ bufPos' = 0
  /\ UNCHANGED got

Truncated(end) == Exhausted /\ pos >= end /\ UNCHANGED rvars

(* One turn of read_exact's loop: what the buffer has of the bytes that the *)
(* record still needs.                                                      *)
Copy(need) ==
  LET n == Least(Len(buf) - bufPos, need - Len(got)) IN
  /\ n > 0
  /\ got' = got \o SubSeq(buf, bufPos + 1, bufPos + n)
  /\ bufPos' = bufPos + n
  /\ UNCHANGED <<pos, buf>>
=============================================================================
