---------------------------- MODULE PipeWireStream ----------------------------
(***************************************************************************)
(* The portal's video stream (pipewire_stream.cpp).  PipeWire's own thread   *)
(* calls back when the stream changes its state, wants memory for a buffer   *)
(* or gives it back; Qt's thread submits frames under the loop's lock, and   *)
(* what the callbacks tell it is posted to it.                               *)
(*                                                                         *)
(* Formats, sizes, strides and the pixels are left out.                      *)
(***************************************************************************)
EXTENDS Naturals, Sequences, FiniteSets

CONSTANTS
  Buffers,    \* pw_buffer
  MaxPosted,  \* calls posted to Qt's thread
  None

VARIABLES
  stream,  \* stage: "new", "idle", "paused", "streaming", "error", "stopped" (the loop's
           \* thread ended), "destroyed", "gone"; node: it has an id; dma: dmaBufFormat;
           \* devices: gbmDevices is not empty
  pool,    \* PipeWire's buffers: None, "free" to be dequeued, or "shown" to the consumer
  memory,  \* allocations: None, "memfd" or "bo"
  posted   \* calls on their way to Qt's thread

streamVars == <<stream, pool, memory, posted>>

Init ==
  /\ stream \in [stage : {"new"}, node : {FALSE}, dma : {FALSE}, devices : BOOLEAN]
  /\ pool = [b \in Buffers |-> None] /\ memory = [b \in Buffers |-> None] /\ posted = <<>>

Runs == stream.stage \in {"idle", "paused", "streaming", "error"}
Room == Len(posted) + 2 <= MaxPosted

\* start(): the caller drops a stream that does not start.
StartStream ==
  /\ stream.stage = "new" /\ \E stage \in {"idle", "stopped"} : stream' = [stream EXCEPT !.stage = stage]
  /\ UNCHANGED <<pool, memory, posted>>

\* stateChanged(): the first time the stream has a node it is ready; each time
\* it streams a frame is due.
Reaches(stage) ==
  LET first == stage # "error" /\ ~stream.node
  IN /\ stream' = [stream EXCEPT !.stage = stage, !.node = @ \/ first]
     /\ posted' = posted \o (IF first THEN <<"ready">> ELSE <<>>)
                         \o (IF first \/ stage = "streaming" THEN <<"frameNeeded">> ELSE <<>>)
                         \o (IF stage = "error" THEN <<"failed">> ELSE <<>>)
StateChanged ==
  /\ Room
  /\ \/ stream.stage \in {"idle", "streaming"} /\ Reaches("paused")
     \/ stream.stage = "paused" /\ Reaches("streaming")
     \/ stream.stage \in {"idle", "paused", "streaming"} /\ Reaches("error")
  /\ UNCHANGED <<pool, memory>>

\* paramChanged(): the format is agreed upon anew; it was offered with a
\* modifier only if there is a device.
ParamChanged ==
  /\ stream.stage \in {"idle", "paused"} /\ \A b \in Buffers : pool[b] = None
  /\ \E dma \in {FALSE, stream.devices} : stream' = [stream EXCEPT !.dma = dma]
  /\ UNCHANGED <<pool, memory, posted>>

\* allocateDmaBuf(), allocateMemFd(): memory of the kind the format asks for.
Allocate(b) == memory' = [memory EXCEPT ![b] = IF stream.dma THEN "bo" ELSE "memfd"]

\* addBuffer(): without memory the stream has failed; the buffer is PipeWire's
\* either way.
AddBuffer(b) ==
  /\ stream.stage \in {"idle", "paused"} /\ pool[b] = None /\ Room
  /\ pool' = [pool EXCEPT ![b] = "free"]
  /\ \/ Allocate(b) /\ UNCHANGED posted
     \/ posted' = Append(posted, "failed") /\ UNCHANGED memory
  /\ UNCHANGED stream

\* removeBuffer() of each of `bs`.
Removed(bs) ==
  /\ pool' = [b \in Buffers |-> IF b \in bs THEN None ELSE pool[b]]
  /\ memory' = [b \in Buffers |-> IF b \in bs THEN None ELSE memory[b]]
RemoveBuffer(b) == Runs /\ pool[b] # None /\ Removed({b}) /\ UNCHANGED <<stream, posted>>

\* process(): the consumer is done with a buffer, and the stream wants another.
Process(b) ==
  /\ stream.stage = "streaming" /\ pool[b] = "shown" /\ Room
  /\ pool' = [pool EXCEPT ![b] = "free"] /\ posted' = Append(posted, "frameNeeded")
  /\ UNCHANGED <<stream, memory>>

\* submit(): a free buffer goes to the consumer with the next frame, or as it
\* is when its memory is missing or cannot be mapped.
Submit ==
  /\ Runs /\ \E b \in Buffers : pool[b] = "free" /\ pool' = [pool EXCEPT ![b] = "shown"]
  /\ UNCHANGED <<stream, memory, posted>>

\* Qt's thread takes what was posted to it.
Take == posted # <<>> /\ posted' = Tail(posted) /\ UNCHANGED <<stream, pool, memory>>

\* ~PipeWireStream(): the loop's thread ends, the stream gives its buffers back,
\* then the devices and what is left of the object go; posted calls with it.
StopLoop == Runs /\ stream' = [stream EXCEPT !.stage = "stopped"] /\ UNCHANGED <<pool, memory, posted>>
DestroyStream ==
  /\ stream.stage = "stopped" /\ Removed({b \in Buffers : pool[b] # None})
  /\ stream' = [stream EXCEPT !.stage = "destroyed"] /\ UNCHANGED posted
DestroyDevices ==
  /\ stream.stage = "destroyed"
  /\ stream' = [stream EXCEPT !.stage = "gone", !.devices = FALSE] /\ posted' = <<>>
  /\ UNCHANGED <<pool, memory>>
\* The next session has a stream of its own.
NextStream ==
  /\ stream.stage = "gone"
  /\ \E devices \in BOOLEAN :
       stream' = [stage |-> "new", node |-> FALSE, dma |-> FALSE, devices |-> devices]
  /\ UNCHANGED <<pool, memory, posted>>

Next ==
  \/ StartStream \/ StateChanged \/ ParamChanged \/ Submit \/ Take \/ StopLoop \/ DestroyStream
  \/ DestroyDevices \/ NextStream
  \/ \E b \in Buffers : AddBuffer(b) \/ RemoveBuffer(b) \/ Process(b)

Spec == Init /\ [][Next]_streamVars

-----------------------------------------------------------------------------
\* The state has its type.
TypeOK ==
  /\ stream \in [stage : {"new", "idle", "paused", "streaming", "error", "stopped", "destroyed", "gone"},
                 node : BOOLEAN, dma : BOOLEAN, devices : BOOLEAN]
  /\ pool \in [Buffers -> {None, "free", "shown"}]
  /\ memory \in [Buffers -> {None, "memfd", "bo"}]
  /\ posted \in Seq({"ready", "frameNeeded", "failed"})

\* The session hears of the node once, and before it is asked for a frame
\* (streamReady sends the first one's size and answers the application).
ReadyFirst ==
  /\ Cardinality({i \in 1 .. Len(posted) : posted[i] = "ready"}) <= 1
  /\ \A i, j \in 1 .. Len(posted) : i < j => posted[j] # "ready" \/ posted[i] = "failed"
  /\ \A i \in 1 .. Len(posted) : posted[i] \in {"ready", "frameNeeded"} => stream.node

\* The stream's memory is that of PipeWire's buffers, none of it outlives the
\* stream, and a buffer object not its device.
MemoryOwned ==
  /\ \A b \in Buffers : memory[b] # None => pool[b] # None
  /\ \A b \in Buffers : memory[b] = "bo" => stream.devices
  /\ stream.stage \in {"new", "destroyed", "gone"} => \A b \in Buffers : memory[b] = None
=============================================================================
