---------------------------- MODULE CursorConfig ----------------------------
(***************************************************************************)
(* AsyncCursorConfig (wasm/async.rs) and the input a cursor is opened on.   *)
(***************************************************************************)
EXTENDS Naturals, Sequences

CONSTANTS
  StreamLen,    \* how many bytes the input has
  BufferSize,   \* buffer_size
  Limit         \* max_buffer_size

ASSUME CursorAssumption ==
  StreamLen \in Nat \ {0} /\ BufferSize \in Nat \ {0} /\ Limit \in Nat
=============================================================================
