----------------------------- MODULE ByteStream -----------------------------
(***************************************************************************)
(* What the parsers of the browser build rely on in an AsyncCursor          *)
(* (wasm/async.rs): the bytes of one stream, in order, each once.  A byte   *)
(* is named by its position in the stream.                                  *)
(***************************************************************************)
EXTENDS Naturals, Sequences

CONSTANTS StreamLen, Limit    \* Limit is max_buffer_size

VARIABLES
  at,        \* the position of the cursor
  goal,      \* where the operation asked for last is to get: the position up to
             \* which there have to be bytes, or that of the cursor itself
  skipping,  \* a skip is under way
  slice,     \* the bytes as_sync_slice gave out last
  failed     \* an operation returned an error: the parse is over

svars == <<at, goal, skipping, slice, failed>>

Init == at = 0 /\ goal \in Nat /\ skipping = FALSE /\ slice = <<>> /\ failed = FALSE

(* ensure_available moves nothing.                                          *)
Ask ==
  /\ ~skipping /\ goal' \in Nat
  /\ UNCHANGED <<at, skipping, slice, failed>>

(* A slice is the next n bytes.                                             *)
Look(n) ==
  /\ ~skipping /\ at + n <= StreamLen
  /\ slice' = [i \in 1..n |-> at + i - 1]
  /\ UNCHANGED <<at, goal, skipping, failed>>

(* advance and skip_bytes go forward, inside the stream.  A skip may take   *)
(* several steps, and when it is done the cursor is where it was asked to   *)
(* go.                                                                      *)
Take ==
  /\ goal' \in Nat /\ (skipping => goal' = goal)
  /\ at' \in at..StreamLen /\ at' <= goal'
  /\ skipping' \in BOOLEAN /\ (~skipping' => at' = goal')
  /\ UNCHANGED <<slice, failed>>

(* Only a request for more than there is, or to hold more than the limit,   *)
(* fails.                                                                   *)
Refuse ==
  /\ goal' \in Nat /\ (skipping => goal' = goal)
  /\ goal' > StreamLen \/ (~skipping /\ goal' > at + Limit)
  /\ failed' = TRUE /\ skipping' = FALSE
  /\ UNCHANGED <<at, slice>>

Next == ~failed /\ (Ask \/ Take \/ Refuse \/ \E n \in 0..StreamLen : Look(n))

Spec == Init /\ [][Next]_svars
=============================================================================
