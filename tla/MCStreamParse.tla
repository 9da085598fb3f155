--------------------------- MODULE MCStreamParse ---------------------------
(* The instances of StreamParse for TLC.                                    *)
EXTENDS StreamParse

(* What the traversal tells apart, but for promises, which it does not read *)
(* as R writes them.  A generic vector is walked like an expression vector, *)
(* an S4 object like a weak reference.                                      *)
MCKinds == {"leaf", "expr", "list", "lang", "sym", "namespace", "env", "clo",
            "weakref", "altrep"}

(* A promise, and what it is made of.                                       *)
MCPromise == {"prom", "leaf", "env"}
=============================================================================
