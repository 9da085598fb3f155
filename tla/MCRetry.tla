------------------------------ MODULE MCRetry ------------------------------
(* The instances of RetryParse for TLC.                                     *)
EXTENDS RetryParse
MCKinds == PartKinds
=============================================================================
