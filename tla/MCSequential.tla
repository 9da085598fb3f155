---------------------------- MODULE MCSequential ----------------------------
(* The instance of SequentialParse for TLC.  Seven items are what it takes  *)
(* to get to a slot of an S4 object in a slot that is skipped: an object, a *)
(* cell and a name, twice, and the value.  A call is read like a list.      *)
EXTENDS SequentialParse

MCKinds == {"leaf", "vec", "s4", "list", "sym", "persist", "altrep"}
=============================================================================
