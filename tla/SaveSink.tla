------------------------------ MODULE SaveSink ------------------------------
(***************************************************************************)
(* Where write_rds_streaming's output goes: to a file that is to replace    *)
(* another at once (write_rds_atomic), or in pieces to a callback           *)
(* (CallbackWriter, wasm).  Both collect the compressor's output in a       *)
(* buffer, hand it on when the buffer is full, and hand on what is left     *)
(* when they are done and once more when they are dropped.                  *)
(*                                                                          *)
(* The compressor (flate2's GzEncoder, external) keeps what the sink did    *)
(* not take, and tries once more to write it and its trailer when it is     *)
(* dropped after an error.  A stream is a row of Length units, each marked  *)
(* with the save it belongs to.                                             *)
(***************************************************************************)
EXTENDS Naturals, Sequences, FiniteSets

CONSTANTS
  Savers,       \* the threads or processes that save
  Sinks,        \* where they may save to: "file", "callback"
  Length,       \* how long a compressed stream is
  BufferSize,   \* the capacity of the buffer
  Rounds,       \* how often a saver may save
  LateErrors    \* may the last flush of a file fail, when the BufWriter is dropped?

ASSUME SinkAssumption ==
  /\ Sinks \subseteq {"file", "callback"}
  /\ Length \in Nat \ {0} /\ BufferSize \in Nat \ {0, 1} /\ Rounds \in Nat
  /\ LateErrors \in BOOLEAN

VARIABLES
  pc,         \* idle, writing, dropping, dropped, closed
  sink,       \* where the saver saves to
  round,      \* which of its saves this is
  made,       \* how many units of the stream the sink has taken over
  buffer,     \* the units in the buffer
  handle,     \* the file the saver has open, and how much it wrote to it
  files,      \* the contents of the files, 1 is the one there at first
  names,      \* the files that the temporary name and the target stand for
  heard,      \* the chunks the callback was called with
  failures,   \* how many writes of this save failed
  result      \* what the save returned

svars == <<pc, sink, round, made, buffer, handle, files, names, heard, failures, result>>

NoFile == 0
Stream(w, r) == [i \in 1..Length |-> <<w, r, i>>]

Init ==
  /\ pc = [w \in Savers |-> "idle"] /\ sink \in [Savers -> Sinks]
  /\ round = [w \in Savers |-> 0] /\ made = [w \in Savers |-> 0]
  /\ buffer = [w \in Savers |-> <<>>]
  /\ handle = [w \in Savers |-> [file |-> NoFile, at |-> 0]]
  /\ files = << <<"old">> >> /\ names = [temp |-> NoFile, target |-> 1]
  /\ heard = [w \in Savers |-> <<>>]
  /\ failures = [w \in Savers |-> 0] /\ result = [w \in Savers |-> "none"]

ToFile(w)   == sink[w] = "file"
Unit(w)     == <<w, round[w], made[w] + 1>>
Goes(w, to) == pc' = [pc EXCEPT ![w] = to]

(* The bytes s at the saver's place in its file: another saver may have the *)
(* same file open.                                                          *)
Overwritten(f, at, s) ==
  [i \in 1..(IF Len(f) > at + Len(s) THEN Len(f) ELSE at + Len(s)) |->
     IF i \in (at + 1)..(at + Len(s)) THEN s[i - at]
     ELSE IF i <= Len(f) THEN f[i] ELSE "hole"]

(* The first n units of b go out; the rest stays.                           *)
FileTakes(w, b, n) ==
  /\ files' = [files EXCEPT ![handle[w].file] = Overwritten(@, handle[w].at, SubSeq(b, 1, n))]
  /\ handle' = [handle EXCEPT ![w].at = @ + n]
  /\ buffer' = [buffer EXCEPT ![w] = SubSeq(b, n + 1, Len(b))]
  /\ UNCHANGED heard

(* The callback is called with all of b.  It keeps the buffer if the call   *)
(* throws, whether or not the callee has used it.                           *)
CallbackTakes(w, b, throws, used) ==
  /\ heard' = IF used THEN [heard EXCEPT ![w] = Append(@, b)] ELSE heard
  /\ buffer' = [buffer EXCEPT ![w] = IF throws THEN b ELSE <<>>]
  /\ UNCHANGED <<files, handle>>

Flushed(w, b) ==
  IF ToFile(w) THEN FileTakes(w, b, Len(b)) ELSE CallbackTakes(w, b, FALSE, TRUE)

FlushFails(w, b) ==
  /\ failures' = [failures EXCEPT ![w] = @ + 1]
  /\ IF ToFile(w)
     THEN \E n \in 0..(Len(b) - 1) : FileTakes(w, b, n)
     ELSE \E used \in BOOLEAN : CallbackTakes(w, b, TRUE, used)

(* File::create truncates the file that has the temporary name, if any.     *)
Start(w) ==
  /\ pc[w] = "idle" /\ round[w] < Rounds
  /\ Goes(w, "writing")
  /\ round' = [round EXCEPT ![w] = @ + 1] /\ made' = [made EXCEPT ![w] = 0]
  /\ buffer' = [buffer EXCEPT ![w] = <<>>] /\ heard' = [heard EXCEPT ![w] = <<>>]
  /\ failures' = [failures EXCEPT ![w] = 0] /\ result' = [result EXCEPT ![w] = "none"]
  /\ IF ~ToFile(w) THEN UNCHANGED <<handle, files, names>>
     ELSE LET f == IF names.temp = NoFile THEN Len(files) + 1 ELSE names.temp
          IN /\ files' = [i \in 1..(IF f > Len(files) THEN f ELSE Len(files)) |->
                            IF i = f THEN <<>> ELSE files[i]]
             /\ names' = [names EXCEPT !.temp = f]
             /\ handle' = [handle EXCEPT ![w] = [file |-> f, at |-> 0]]
  /\ UNCHANGED sink

(* A BufWriter makes room before it takes a unit, a CallbackWriter hands on *)
(* a full buffer at once.                                                   *)
FullPast(b) == Len(b) > BufferSize
Full(b)     == Len(b) >= BufferSize
WriteUnit(w) ==
  /\ pc[w] = "writing" /\ made[w] < Length
  /\ made' = [made EXCEPT ![w] = @ + 1]
  /\ LET b == Append(buffer[w], Unit(w))
     IN \/ /\ ToFile(w) /\ Full(buffer[w])
           /\ files' = [files EXCEPT ![handle[w].file] = Overwritten(@, handle[w].at, buffer[w])]
           /\ handle' = [handle EXCEPT ![w].at = @ + Len(buffer[w])]
           /\ buffer' = [buffer EXCEPT ![w] = <<Unit(w)>>]
           /\ UNCHANGED heard
        \/ ~ToFile(w) /\ Full(b) /\ Flushed(w, b)
        \/ /\ ~Full(IF ToFile(w) THEN buffer[w] ELSE b)
           /\ buffer' = [buffer EXCEPT ![w] = b]
           /\ UNCHANGED <<files, handle, heard>>
  /\ UNCHANGED <<pc, sink, round, names, failures, result>>

(* The error goes up through write_object; the encoder is dropped.  The unit*)
(* that made a callback's buffer full is in it and still with the encoder.  *)
Swallowed  == "writing"
AfterError == "dropping"

WriteFails(w) ==
  /\ pc[w] = "writing" /\ made[w] < Length
  /\ IF ToFile(w)
     THEN Full(buffer[w]) /\ FlushFails(w, buffer[w])
     ELSE Full(Append(buffer[w], Unit(w))) /\ FlushFails(w, Append(buffer[w], Unit(w)))
  /\ Goes(w, AfterError)
  /\ UNCHANGED <<sink, round, made, names, result>>

(* GzEncoder's drop writes what it still holds and a trailer that closes a  *)
(* stream cut short, if the sink can now make room for them.                *)
DropEncoder(w) ==
  /\ pc[w] = "dropping"
  /\ \/ /\ IF ToFile(w)
           THEN /\ files' = [files EXCEPT ![handle[w].file] = Overwritten(@, handle[w].at, buffer[w])]
                /\ handle' = [handle EXCEPT ![w].at = @ + Len(buffer[w])]
                /\ UNCHANGED heard
           ELSE /\ heard' = [heard EXCEPT ![w] = Append(@, buffer[w])]
                /\ UNCHANGED <<files, handle>>
        /\ buffer' = [buffer EXCEPT ![w] = <<Unit(w), "trailer">>]
        /\ UNCHANGED failures
     \/ FlushFails(w, buffer[w])
  /\ Goes(w, "dropped")
  /\ UNCHANGED <<sink, round, made, names, result>>

(* The sink's own drop tries once more and looks at nothing.                *)
DropSink(w) ==
  /\ pc[w] = "dropped"
  /\ \/ Flushed(w, buffer[w]) /\ buffer[w] # <<>> /\ UNCHANGED failures
     \/ buffer[w] # <<>> /\ FlushFails(w, buffer[w])
     \/ buffer[w] = <<>> /\ UNCHANGED <<files, handle, buffer, heard, failures>>
  /\ Goes(w, "idle") /\ result' = [result EXCEPT ![w] = "error"]
  /\ UNCHANGED <<sink, round, made, names>>

(* encoder.finish() is done: the callback's writer is finished with a flush *)
(* that is checked, the file's is just dropped.                             *)
FinishOk(w) ==
  /\ pc[w] = "writing" /\ made[w] = Length
  /\ \/ buffer[w] # <<>> /\ Flushed(w, buffer[w])
     \/ buffer[w] = <<>> /\ UNCHANGED <<files, handle, buffer, heard>>
  /\ IF ToFile(w) THEN Goes(w, "closed") /\ UNCHANGED result
     ELSE Goes(w, "idle") /\ result' = [result EXCEPT ![w] = "ok"]
  /\ UNCHANGED <<sink, round, made, names, failures>>

FinishFails(w) ==
  /\ pc[w] = "writing" /\ made[w] = Length /\ buffer[w] # <<>>
  /\ ToFile(w) => LateErrors
  /\ FlushFails(w, buffer[w])
  /\ Goes(w, IF ToFile(w) THEN "closed" ELSE "dropped")
  /\ UNCHANGED <<sink, round, made, names, result>>

(* fs::rename: the target stands for whatever the temporary name stands for.*)
RenameEarly(w)  == pc[w] \in {"closed", "writing"} /\ made[w] = Length
RenameClosed(w) == pc[w] = "closed"
Rename(w) ==
  /\ ToFile(w) /\ RenameClosed(w)
  /\ \/ /\ names.temp # NoFile
        /\ names' = [temp |-> NoFile, target |-> names.temp]
        /\ result' = [result EXCEPT ![w] = "ok"]
     \/ UNCHANGED names /\ result' = [result EXCEPT ![w] = "error"]
  /\ Goes(w, "idle")
  /\ UNCHANGED <<sink, round, made, buffer, handle, files, heard, failures>>

(* The process dies; what was written to files stays.  Another one may start*)
(* the save anew.                                                           *)
Crash(w) ==
  /\ pc[w] # "idle" /\ ToFile(w)
  /\ Goes(w, "idle") /\ buffer' = [buffer EXCEPT ![w] = <<>>]
  /\ result' = [result EXCEPT ![w] = "crashed"]
  /\ UNCHANGED <<sink, round, made, handle, files, names, heard, failures>>

Next == \E w \in Savers :
  \/ Start(w) \/ WriteUnit(w) \/ WriteFails(w) \/ DropEncoder(w) \/ DropSink(w)
  \/ FinishOk(w) \/ FinishFails(w) \/ Rename(w) \/ Crash(w)

Spec == Init /\ [][Next]_svars
-----------------------------------------------------------------------------
TypeOK ==
  /\ pc \in [Savers -> {"idle", "writing", "dropping", "dropped", "closed"}]
  /\ sink \in [Savers -> Sinks] /\ round \in [Savers -> 0..Rounds]
  /\ made \in [Savers -> 0..Length]
  /\ \A w \in Savers : Len(buffer[w]) <= BufferSize
  /\ names.temp \in 0..Len(files) /\ names.target \in 1..Len(files)
  /\ result \in [Savers -> {"none", "ok", "error", "crashed"}]

(* Whoever opens the target at any moment, after any error or crash, finds  *)
(* the old file or the whole stream of one save.                            *)
Target == files[names.target]
TargetWhole ==
  Target = <<"old">> \/ \E w \in Savers, r \in 1..Rounds : Target = Stream(w, r)

Received(w) ==
  LET joined[k \in 0..Len(heard[w])] == IF k = 0 THEN <<>> ELSE joined[k - 1] \o heard[w][k]
  IN IF ToFile(w) THEN Target ELSE joined[Len(heard[w])]

(* A save that reports success has delivered its stream, each unit once and *)
(* in order, and met no error on the way.  There is one exception, which the*)
(* code does not guard against: the last flush of a file may have failed in *)
(* the drop of its BufWriter, and what the target then lacks is at the      *)
(* stream's end and was in the buffer.                                      *)
Delivered(w, s)   == failures[w] = 0 /\ s = Stream(w, round[w])
LostItsEnd(w, s)  ==
  /\ LateErrors /\ ToFile(w) /\ failures[w] = 1
  /\ \E n \in 0..(Length - 1) :
       n + BufferSize >= Length /\ s = [i \in 1..n |-> <<w, round[w], i>>]
OkMeansDelivered ==
  \A w \in Savers : result[w] = "ok" =>
    Delivered(w, Received(w)) \/ LostItsEnd(w, Received(w))
=============================================================================
