----------------------------- MODULE AsyncCursor -----------------------------
(***************************************************************************)
(* The trait AsyncCursor (wasm/async.rs) and its two implementations.  The  *)
(* caller opens one of them, a window over a random-access input or a       *)
(* buffer in front of a forward-only one; the parsers see the trait alone.  *)
(* The two share the variables: the window needs neither inpos nor left.    *)
(***************************************************************************)
EXTENDS CursorConfig

VARIABLES
  opened,                                  \* which cursor it is
  inpos, buf, start, pos, pc, need, left,  \* see SequentialCursor
  seen, bad, goal

vars == <<opened, inpos, buf, start, pos, pc, need, left, seen, bad, goal>>

Forward == INSTANCE SequentialCursor
Window  == INSTANCE BufferedCursor WITH offset <- start

Init ==
  \/ opened = "forward" /\ Forward!Init
  \/ opened = "window" /\ Window!Init /\ inpos = 0 /\ left = 0

ForwardStep == opened = "forward" /\ Forward!Next /\ UNCHANGED opened
WindowStep  == opened = "window" /\ Window!Next /\ UNCHANGED <<opened, inpos, left>>

Next == ForwardStep \/ WindowStep

(* An operation that awaits its input is polled until it is done.           *)
Pending ==
  \/ opened = "forward" /\ Forward!Work /\ UNCHANGED opened
  \/ opened = "window" /\ Window!Refill /\ UNCHANGED <<opened, inpos, left>>

Spec == Init /\ [][Next]_vars /\ WF_vars(Pending)
-----------------------------------------------------------------------------
TypeOK ==
  /\ opened = "forward" => Forward!TypeOK
  /\ opened = "window" => Window!TypeOK /\ inpos = 0 /\ left = 0

(* The bytes a cursor holds are those of the stream at the place it believes *)
(* them to be, whatever was drained, refilled or skipped before.            *)
BufferIsStream ==
  /\ opened = "forward" => Forward!BufferIsStream
  /\ opened = "window" => Window!WindowIsStream

(* max_buffer_size bounds what is held: of the forward cursor at rest, and  *)
(* twice while it is filled; of the window, unless buffer_size is larger.   *)
BufferBounded ==
  /\ opened = "forward" => Forward!BufferBounded
  /\ opened = "window" => Len(buf) <= IF Limit > BufferSize THEN Limit ELSE BufferSize

(* Whichever cursor was opened, its caller sees one stream of bytes, in     *)
(* order, a skip leaves the cursor exactly where it was asked to, and an    *)
(* operation fails only if it asks for more than there is or than the limit.*)
Stream == INSTANCE ByteStream WITH
            at <- pos, slice <- seen, failed <- bad, skipping <- (pc = "skip")
ImplementsByteStream == Stream!Spec

(* ensure_available and skip_bytes return, though the input gives as little *)
(* as it likes at a time.                                                   *)
OperationsComplete == pc # "idle" ~> pc = "idle"
=============================================================================
