----------------------------- MODULE RangeSource -----------------------------
(***************************************************************************)
(* RdsInput and AsyncRdsInput over a large file: whoever reads a range asks *)
(* the native source, from several threads, or the blob source, from        *)
(* several asynchronous calls.  One of the two is opened; they share the    *)
(* cache's code and the variables (only the blob source spawns tasks).      *)
(***************************************************************************)
EXTENDS ChunkCache

VARIABLES
  source,                            \* "file" or "blob"
  pc, req, cur, out, res, calls,     \* see ChunkedSource
  tasks                              \* see BlobSource

vars == <<source, cvars, pc, req, cur, out, res, calls, tasks>>

Native == INSTANCE ChunkedSource
Blob   == INSTANCE BlobSource

Init ==
  \/ source = "file" /\ Native!Init /\ tasks = <<>>
  \/ source = "blob" /\ Blob!Init

FileStep == source = "file" /\ Native!Next /\ UNCHANGED <<source, tasks>>
BlobStep == source = "blob" /\ Blob!Next /\ UNCHANGED source

Next == FileStep \/ BlobStep

(* A thread inside read_at keeps running, and std's mutexes hand the lock   *)
(* to a waiting thread in the end; the event loop gives every promise that  *)
(* has settled its turn.                                                    *)
FileRuns(c) == source = "file" /\ Native!Run(c) /\ UNCHANGED <<source, tasks>>
BlobRuns(c) == source = "blob" /\ Blob!Run(c) /\ UNCHANGED source
TasksRun    == source = "blob" /\ Blob!Task /\ UNCHANGED source

Fairness ==
  /\ WF_vars(TasksRun)
  /\ \A c \in Clients : SF_vars(FileRuns(c)) /\ SF_vars(BlobRuns(c))

Spec == Init /\ [][Next]_vars /\ Fairness
-----------------------------------------------------------------------------
TypeOK ==
  /\ source = "file" => Native!TypeOK /\ tasks = <<>>
  /\ source = "blob" => Blob!TypeOK

(* A read that returns Ok has copied every byte it was asked for and no     *)
(* other, whatever the cache held and whoever ran in between: between the   *)
(* lookup that misses and the insert of what was read, both sources let     *)
(* others change the cache.                                                 *)
ReadsExact ==
  \A c \in Clients : pc[c] = "idle" /\ res[c] = "ok" =>
    out[c] = req[c][1] .. (req[c][1] + req[c][2] - 1)

(* Every call of read_at returns, and every promise of one settles.         *)
CallsReturn == \A c \in Clients : pc[c] # "idle" ~> pc[c] = "idle"
=============================================================================
