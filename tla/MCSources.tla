----------------------------- MODULE MCSources -----------------------------
(* Instances of RangeSource: a file of three chunks, the last one short.    *)
EXTENDS RangeSource

CONSTANTS c1, c2

MCTwo == {c1, c2}

(* Inside a chunk, across a boundary, past the end, and empty.              *)
MCRequests == {<<0, 2>>, <<1, 2>>, <<4, 1>>, <<4, 3>>, <<1, 0>>}
=============================================================================
