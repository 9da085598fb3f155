------------------------------- MODULE MCSave -------------------------------
(* The instances of SaveSink for TLC.                                       *)
EXTENDS SaveSink
=============================================================================
