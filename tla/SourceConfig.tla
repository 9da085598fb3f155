---------------------------- MODULE SourceConfig ----------------------------
(***************************************************************************)
(* What the two chunked sources are configured with, and what is asked of   *)
(* them.                                                                    *)
(***************************************************************************)
EXTENDS Naturals, Sequences, FiniteSets

CONSTANTS
  FileLen, ChunkSize,
  Limits,     \* the values of max_bytes a caller may configure
  Clients,    \* the threads, or the asynchronous calls, that read
  Requests,   \* the <<offset, len>> a client may ask for
  Calls,      \* how many calls each client makes (a bound)
  IOErrors,   \* may a read of the native file fail?
  Distance,   \* prefetch_distance of the blob source
  MaxTasks    \* how many loads of one chunk may be under way (a bound)

Nobody == "nobody"

ASSUME SourceAssumption ==
  /\ FileLen \in Nat /\ ChunkSize \in Nat \ {0} /\ Limits \subseteq Nat
  /\ Nobody \notin Clients /\ "task" \notin Clients
  /\ Requests \subseteq Nat \X Nat
  /\ Calls \in Nat /\ IOErrors \in BOOLEAN
  /\ Distance \in Nat /\ MaxTasks \in Nat
=============================================================================
