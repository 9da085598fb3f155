------------------------------ MODULE MCWrite ------------------------------
(* The instances of WriteObject for TLC: what the values are made of.       *)
EXTENDS WriteObject

MCKinds == {"leaf", "vec", "expr", "list", "lang", "clo", "prom", "s4", "sym",
            "env", "namespace", "package"}

(* A list of a namespace and symbols, each behind its own Arc, as the       *)
(* parser returns them.                                                     *)
MCParsedKinds == {"vec", "leaf", "sym", "namespace"}
=============================================================================
