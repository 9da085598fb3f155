----------------------------- MODULE BlobSource -----------------------------
(***************************************************************************)
(* BlobChunkedSource (wasm/blob_source.rs): read_at as an async function on *)
(* the browser's single thread.  Nothing runs in between two awaits, but    *)
(* while a read waits for the Blob, other reads and the prefetch tasks that *)
(* earlier reads spawned run on, and none of them knows of the others.      *)
(***************************************************************************)
EXTENDS ChunkCache

VARIABLES
  pc,      \* where each reader is in read_at
  req, cur, out, res, calls,   \* as in ChunkedSource
  tasks    \* for each chunk, how many prefetch tasks are loading it

tvars == <<pc, req, cur, out, res, calls, tasks>>
vars  == <<cvars, tvars>>

Start(r) == req[r][1]
End(r)   == req[r][1] + req[r][2]
LastChunk(r) == (End(r) - 1) \div ChunkSize

StartsPastEnd(q) == q[1] > FileLen
PastEnd(q)       == q[1] + q[2] > FileLen

WithEnd(r, c) == Bytes(c) \cap (Start(r) .. End(r))
Slice(r, c)   == Bytes(c) \cap (Start(r) .. (End(r) - 1))

Init ==
  /\ CInit
  /\ pc = [r \in Clients |-> "idle"]
  /\ req = [r \in Clients |-> <<0, 0>>]
  /\ cur = [r \in Clients |-> 0]
  /\ out = [r \in Clients |-> {}]
  /\ res = [r \in Clients |-> "none"]
  /\ calls = [r \in Clients |-> 0]
  /\ tasks = [c \in Chunks |-> 0]

Goto(r, l) == pc' = [pc EXCEPT ![r] = l]

Call(r, q) ==
  /\ holder = Nobody /\ pc[r] = "idle" /\ calls[r] < Calls
  /\ calls' = [calls EXCEPT ![r] = @ + 1]
  /\ req' = [req EXCEPT ![r] = q]
  /\ out' = [out EXCEPT ![r] = {}]
  /\ cur' = [cur EXCEPT ![r] = q[1] \div ChunkSize]
  /\ IF q[2] = 0 \/ PastEnd(q)
     THEN res' = [res EXCEPT ![r] = IF q[2] = 0 THEN "ok" ELSE "eof"] /\ UNCHANGED pc
     ELSE Goto(r, "lookup") /\ UNCHANGED res
  /\ UNCHANGED <<cvars, tasks>>

(* prefetch_after: one task for each of the next chunks not yet cached.     *)
Ahead(c) == {d \in Chunks : c < d /\ d <= c + Distance}
Spawned(c) == [d \in Chunks |-> IF d \in Ahead(c) \ map' /\ tasks[d] < MaxTasks
                                THEN tasks[d] + 1 ELSE tasks[d]]

NextChunk(r) ==
  IF cur[r] = LastChunk(r)
  THEN /\ Goto(r, "idle") /\ res' = [res EXCEPT ![r] = "ok"]
       /\ tasks' = Spawned(cur[r])
       /\ UNCHANGED cur
  ELSE /\ Goto(r, "lookup") /\ cur' = [cur EXCEPT ![r] = @ + 1]
       /\ UNCHANGED <<res, tasks>>

LookupHit(r) ==
  /\ pc[r] = "lookup" /\ Hit(cur[r])
  /\ out' = [out EXCEPT ![r] = @ \cup Slice(r, cur[r])]
  /\ NextChunk(r)
  /\ UNCHANGED <<req, calls>>

(* A miss starts load_chunk and waits for the Blob.                         *)
LookupMiss(r) ==
  /\ pc[r] = "lookup" /\ Miss(cur[r])
  /\ Goto(r, "loading")
  /\ UNCHANGED <<req, cur, out, res, calls, tasks>>

LoadFails(r) ==
  /\ pc[r] = "loading" /\ holder = Nobody
  /\ Goto(r, "idle") /\ res' = [res EXCEPT ![r] = "error"]
  /\ UNCHANGED <<cvars, req, cur, out, calls, tasks>>

Loaded(r) ==
  /\ pc[r] = "loading"
  /\ out' = [out EXCEPT ![r] = @ \cup Slice(r, cur[r])]
  /\ BeginInsert(r, cur[r])
  /\ IF TooBig(cur[r])
     THEN NextChunk(r)
     ELSE Goto(r, "inserting") /\ UNCHANGED <<cur, res, tasks>>
  /\ UNCHANGED <<req, calls>>

InsertEnds(r) ==
  /\ pc[r] = "inserting" /\ Store(r)
  /\ NextChunk(r)
  /\ UNCHANGED <<req, out, calls>>

(* A prefetch task's load ends, well or badly; it inserts what it has read. *)
TaskFails(c) ==
  /\ holder = Nobody /\ tasks[c] > 0
  /\ tasks' = [tasks EXCEPT ![c] = @ - 1]
  /\ UNCHANGED <<cvars, pc, req, cur, out, res, calls>>

TaskLoaded(c) ==
  /\ tasks[c] > 0 /\ BeginInsert("task", c)
  /\ tasks' = [tasks EXCEPT ![c] = @ - 1]
  /\ UNCHANGED <<pc, req, cur, out, res, calls>>

InsertEvicts == \E who \in Clients \cup {"task"} : Evict(who) /\ UNCHANGED tvars
TaskEnds     == Store("task") /\ UNCHANGED tvars

Run(r) == LookupHit(r) \/ LookupMiss(r) \/ LoadFails(r) \/ Loaded(r) \/ InsertEnds(r)
Task   == TaskEnds \/ InsertEvicts \/ \E c \in Chunks : TaskLoaded(c) \/ TaskFails(c)

Next == Task \/ \E r \in Clients : Run(r) \/ \E q \in Requests : Call(r, q)

(* The event loop gives every promise that has settled its turn.            *)
Fairness == WF_vars(Task) /\ \A r \in Clients : SF_vars(Run(r))
Spec == Init /\ [][Next]_vars /\ Fairness
-----------------------------------------------------------------------------
TypeOK ==
  /\ CTypeOK(Clients \cup {"task"})
  /\ pc \in [Clients -> {"idle", "lookup", "loading", "inserting"}]
  /\ req \in [Clients -> Requests \cup {<<0, 0>>}]
  /\ cur \in [Clients -> Nat]
  /\ out \in [Clients -> SUBSET (0..FileLen)]
  /\ res \in [Clients -> {"none", "ok", "eof", "error"}]
  /\ calls \in [Clients -> 0..Calls]
  /\ tasks \in [Chunks -> 0..MaxTasks]

(* A read that resolves has all the bytes it was asked for and no other.    *)
ReadsExact ==
  \A r \in Clients : pc[r] = "idle" /\ res[r] = "ok" => out[r] = Start(r)..(End(r) - 1)

(* Every read settles.                                                      *)
CallsReturn == \A r \in Clients : pc[r] # "idle" ~> pc[r] = "idle"
=============================================================================
