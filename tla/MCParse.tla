------------------------------ MODULE MCParse ------------------------------
(* The instance of ParseObject for TLC: which kinds of object R writes.     *)
EXTENDS ParseObject

(* One type of each kind that the parser tells apart; "expr" and "weakref"  *)
(* are read like "vec" and "s4", and MCStreamParse has them.  Left out are  *)
(* the kinds it does not read as R writes them: "extptr", and "real3" where *)
(* it reads as the state of a sequence.                                     *)
MCKinds == {"leaf", "list", "lang", "env", "rownames", "clo", "prom", "vec",
            "altrep", "s4", "persist", "package"}
=============================================================================
