--------------------------- MODULE ChunkedSource ---------------------------
(***************************************************************************)
(* ChunkedRdsSource (source.rs): read_at from several threads.  The source  *)
(* is shared by reference, its cache and its file are each behind a mutex,  *)
(* and a read takes and releases them many times: between the lookup that   *)
(* misses and the insert that follows, every other thread may run.          *)
(***************************************************************************)
EXTENDS ChunkCache

VARIABLES
  pc,      \* where each thread is in read_at
  req,     \* its request
  cur,     \* the chunk it is at
  out,     \* the positions it has copied into its result
  res,     \* how its last call ended
  calls    \* how many calls it made

tvars == <<pc, req, cur, out, res, calls>>
vars  == <<cvars, tvars>>

Start(t) == req[t][1]
End(t)   == req[t][1] + req[t][2]

LastChunk(t) == (End(t) - 1) \div ChunkSize

StartsPastEnd(r) == r[1] > FileLen
PastEnd(r)       == r[1] + r[2] > FileLen

(* The part of chunk c that the request wants.                              *)
WithEnd(t, c) == Bytes(c) \cap (Start(t) .. End(t))
Slice(t, c)   == Bytes(c) \cap (Start(t) .. (End(t) - 1))

Init ==
  /\ CInit
  /\ pc = [t \in Clients |-> "idle"]
  /\ req = [t \in Clients |-> <<0, 0>>]
  /\ cur = [t \in Clients |-> 0]
  /\ out = [t \in Clients |-> {}]
  /\ res = [t \in Clients |-> "none"]
  /\ calls = [t \in Clients |-> 0]

Goto(t, l) == pc' = [pc EXCEPT ![t] = l]

Return(t, r) == Goto(t, "idle") /\ res' = [res EXCEPT ![t] = r]

Call(t, r) ==
  /\ pc[t] = "idle" /\ calls[t] < Calls
  /\ calls' = [calls EXCEPT ![t] = @ + 1]
  /\ req' = [req EXCEPT ![t] = r]
  /\ out' = [out EXCEPT ![t] = {}]
  /\ cur' = [cur EXCEPT ![t] = r[1] \div ChunkSize]
  /\ IF r[2] = 0 THEN Return(t, "ok")
     ELSE IF PastEnd(r) THEN Return(t, "eof")
     ELSE Goto(t, "lookup") /\ UNCHANGED res
  /\ UNCHANGED cvars

(* The rest of the loop: the next chunk, or out.                            *)
NextChunk(t) ==
  IF cur[t] = LastChunk(t)
  THEN Return(t, "ok") /\ UNCHANGED cur
  ELSE Goto(t, "lookup") /\ cur' = [cur EXCEPT ![t] = @ + 1] /\ UNCHANGED res

(* copy_cached_slice, under the cache mutex.                                *)
LookupHit(t) ==
  /\ pc[t] = "lookup" /\ Hit(cur[t])
  /\ out' = [out EXCEPT ![t] = @ \cup Slice(t, cur[t])]
  /\ NextChunk(t)
  /\ UNCHANGED <<req, calls>>

LookupMiss(t) ==
  /\ pc[t] = "lookup" /\ Miss(cur[t])
  /\ Goto(t, "fetch")
  /\ UNCHANGED <<req, cur, out, res, calls>>

(* read_chunk_from_file, under the file mutex only; the slice is copied out *)
(* of the fresh chunk before it is offered to the cache.                    *)
Fetch(t) ==
  /\ pc[t] = "fetch"
  /\ out' = [out EXCEPT ![t] = @ \cup Slice(t, cur[t])]
  /\ Goto(t, "insert")
  /\ UNCHANGED <<req, cur, res, calls, cvars>>

FetchFails(t) ==
  /\ pc[t] = "fetch" /\ IOErrors
  /\ Return(t, "io")
  /\ UNCHANGED <<req, cur, out, calls, cvars>>

(* After the insert, the last chunk of a request prefetches the one after.  *)
AfterInsert(t) ==
  IF cur[t] = LastChunk(t)
  THEN Goto(t, "prefetch") /\ UNCHANGED <<cur, res>>
  ELSE NextChunk(t)

InsertTooBig(t) ==
  /\ pc[t] = "insert" /\ TooBig(cur[t])
  /\ BeginInsert(t, cur[t])
  /\ AfterInsert(t)
  /\ UNCHANGED <<req, out, calls>>

InsertBegins(t) ==
  /\ pc[t] = "insert" /\ ~TooBig(cur[t])
  /\ BeginInsert(t, cur[t])
  /\ Goto(t, "inserting")
  /\ UNCHANGED <<req, cur, out, res, calls>>

InsertEvicts(t) == Evict(t) /\ UNCHANGED tvars

InsertEnds(t) ==
  /\ pc[t] = "inserting" /\ Store(t)
  /\ AfterInsert(t)
  /\ UNCHANGED <<req, out, calls>>

(* prefetch_next_chunk; a failed read is dropped.                           *)
Following(t) == cur[t] + 1

PrefetchSkips(t) ==
  /\ pc[t] = "prefetch"
  /\ ChunkStart(Following(t)) >= FileLen \/ (holder = Nobody /\ Following(t) \in map)
  /\ Return(t, "ok")
  /\ UNCHANGED <<req, cur, out, calls, cvars>>

PrefetchStarts(t) ==
  /\ pc[t] = "prefetch"
  /\ ChunkStart(Following(t)) < FileLen /\ Miss(Following(t))
  /\ Goto(t, "prefetching")
  /\ UNCHANGED <<req, cur, out, res, calls>>

PrefetchFails(t) ==
  /\ pc[t] = "prefetching" /\ IOErrors
  /\ Return(t, "ok")
  /\ UNCHANGED <<req, cur, out, calls, cvars>>

PrefetchInserts(t) ==
  /\ pc[t] = "prefetching"
  /\ BeginInsert(t, Following(t))
  /\ IF TooBig(Following(t)) THEN Return(t, "ok")
     ELSE Goto(t, "storing") /\ UNCHANGED res
  /\ UNCHANGED <<req, cur, out, calls>>

PrefetchEnds(t) ==
  /\ pc[t] = "storing" /\ Store(t)
  /\ Return(t, "ok")
  /\ UNCHANGED <<req, cur, out, calls>>

Run(t) ==
  \/ LookupHit(t) \/ LookupMiss(t) \/ Fetch(t) \/ FetchFails(t)
  \/ InsertTooBig(t) \/ InsertBegins(t) \/ InsertEvicts(t) \/ InsertEnds(t)
  \/ PrefetchSkips(t) \/ PrefetchStarts(t) \/ PrefetchFails(t)
  \/ PrefetchInserts(t) \/ PrefetchEnds(t)

Next == \E t \in Clients : Run(t) \/ \E r \in Requests : Call(t, r)

(* A thread inside read_at keeps running, and std's mutexes hand the lock   *)
(* to a waiting thread in the end.                                          *)
Fairness == \A t \in Clients : SF_vars(Run(t))
Spec == Init /\ [][Next]_vars /\ Fairness
-----------------------------------------------------------------------------
TypeOK ==
  /\ CTypeOK(Clients)
  /\ pc \in [Clients -> {"idle", "lookup", "fetch", "insert", "inserting",
                         "prefetch", "prefetching", "storing"}]
  /\ req \in [Clients -> Requests \cup {<<0, 0>>}]
  /\ cur \in [Clients -> Nat]
  /\ out \in [Clients -> SUBSET (0..FileLen)]
  /\ res \in [Clients -> {"none", "ok", "eof", "io"}]
  /\ calls \in [Clients -> 0..Calls]

(* A read that returns Ok has copied every byte it was asked for and no     *)
(* other, whatever the cache held and whichever threads ran in between.     *)
ReadsExact ==
  \A t \in Clients : pc[t] = "idle" /\ res[t] = "ok" => out[t] = Start(t)..(End(t) - 1)

(* Every call returns.                                                      *)
CallsReturn == \A t \in Clients : pc[t] # "idle" ~> pc[t] = "idle"
=============================================================================
