--------------------------- MODULE VectorDelivery ---------------------------
(***************************************************************************)
(* What reading a vector in pieces promises, whoever reads: the elements of *)
(* the range that was asked for come in order, each once, and the reading   *)
(* says that it is complete only when all have come.  It may stop with an   *)
(* error at any time; where the caller can go on after one, it goes on at   *)
(* the element it had reached.                                              *)
(***************************************************************************)
EXTENDS Naturals, Sequences

VARIABLES
  wanted,     \* the elements of the range, in order; chosen by the caller
  delivered,  \* the elements the caller has been given
  state       \* "open", "ended" or "failed"

dvars == <<wanted, delivered, state>>

Init == delivered = <<>> /\ state = "open"

(* The next elements, at least one, or all that are left and the end.       *)
Deliver ==
  /\ state = "open"
  /\ \E n \in Len(delivered)+1 .. Len(wanted) : delivered' = SubSeq(wanted, 1, n)
  /\ state' = "open" \/ (state' = "ended" /\ delivered' = wanted)
  /\ UNCHANGED wanted

Finish == state = "open" /\ delivered = wanted /\ state' = "ended" /\ UNCHANGED <<wanted, delivered>>
Fail   == state = "open" /\ state' = "failed" /\ UNCHANGED <<wanted, delivered>>
Resume == state = "failed" /\ state' = "open" /\ UNCHANGED <<wanted, delivered>>

Next == Deliver \/ Finish \/ Fail \/ Resume
Spec == Init /\ [][Next]_dvars
=============================================================================
