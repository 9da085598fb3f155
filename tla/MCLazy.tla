------------------------------- MODULE MCLazy -------------------------------
(* Instances of LazyVectors: up to three elements of one to three bytes;    *)
(* all vectors of up to three strings of no or two bytes, NA, and good and  *)
(* bad references; and one where a string follows a reference.              *)
EXTENDS LazyVectors

Cell   == [t |-> "cell", len |-> 0, to |-> 0]
Str(n) == [t |-> "str", len |-> n, to |-> 0]
Na     == [t |-> "na", len |-> 0, to |-> 0]
Ref(k) == [t |-> "ref", len |-> 0, to |-> k]

MCVectors ==
  {[width |-> w, items |-> [k \in 1..n |-> Cell]] : w \in 1..3, n \in 0..3}
  \cup {[width |-> 0, items |-> s] :
          s \in SeqOf({Str(0), Str(2), Na, Ref(1), Ref(2)}, 3)
               \cup {<<Str(1), Ref(1), Str(1), Ref(2)>>}}
=============================================================================
