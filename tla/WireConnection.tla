--------------------------- MODULE WireConnection ---------------------------
(***************************************************************************)
(* The event direction of a zwayland connection: a server Client queues    *)
(* events in its wire::Connection, flushes them into the socket, and the   *)
(* client Display's wire::Connection receives and dispatches them.  Bytes  *)
(* and descriptors travel in two streams that only the kernel keeps in     *)
(* step (a batch of descriptors travels with the first byte of a sendmsg), *)
(* so the model counts them separately.  All counters are cumulative:      *)
(* output_chunks_ is what lies between sent and the end of the last        *)
(* queued message, output_fds_ what lies between sentFds and its last      *)
(* descriptor, input_bytes_ and input_fds_ likewise on the other side.     *)
(***************************************************************************)
EXTENDS Integers, Sequences

CONSTANTS
  Header,          \* bytes of a message header
  MaxFdsPerSend,   \* kMaxFdsPerSend
  RecvChunk,       \* kRecvChunk
  MaxBuffered,     \* kMaxBufferedInput
  Shapes,          \* the messages sent: records [size, fds]
  SocketSpace,     \* bytes the kernel buffers
  MaxMessages      \* bound: messages queued in one behaviour

ASSUME LimitsAssumption ==
  /\ Header \in Nat \ {0}
  /\ MaxFdsPerSend \in Nat \ {0}
  /\ RecvChunk \in Nat \ {0}
  /\ MaxBuffered \in Nat \ {0}
  /\ SocketSpace \in Nat \ {0}
  /\ MaxMessages \in Nat

\* A message is at least a header long, and flush() finds a byte to accompany
\* every batch of descriptors: a message of s bytes carries at most
\* MaxFdsPerSend * s of them (224 for a bare header in the code).
ASSUME ShapesAssumption ==
  /\ Shapes \subseteq [size : Nat, fds : Nat]
  /\ \A s \in Shapes : Header <= s.size /\ s.fds <= MaxFdsPerSend * s.size

VARIABLES
  queued,     \* messages ever queued: [end, fdEnd] cumulative byte/descriptor ends
  sent,       \* bytes handed to the kernel
  sentFds,    \* descriptors handed to the kernel
  mark,       \* mark[b]: descriptors the kernel delivers with bytes 1..b
  tx,         \* the server side: "idle", "flushing" or "closed"
  pollout,    \* EPOLLOUT is in the client's epoll mask
  dead,       \* Client::dead_, a protocol error was posted
  rcvd,       \* bytes read into input_chunks_
  rcvdFds,    \* descriptors read into input_fds_
  taken,      \* messages consumed
  takenFds,   \* descriptors consumed (input_fd_cursor_)
  rx,         \* the client side: "idle", "reading", "dispatching" or "closed"
  gotAny,     \* got_any of the read_available() under way
  rxFailed,   \* the client side's failed_ or peer_closed_
  handled     \* history: the descriptors each handled message was given

txVars == <<queued, sent, sentFds, mark, tx, pollout, dead>>
rxVars == <<rcvd, rcvdFds, taken, takenFds, rx, gotAny, rxFailed, handled>>
vars == <<txVars, rxVars>>

----------------------------------------------------------------------------
\* A message in transit, by where its bytes and its descriptors end.
Message == [end : Nat, fdEnd : Nat]

End(i) == IF i = 0 THEN 0 ELSE queued[i].end
FdEnd(i) == IF i = 0 THEN 0 ELSE queued[i].fdEnd
MarkAt(b) == IF b = 0 THEN 0 ELSE mark[b]

QueuedBytes == End(Len(queued)) - sent        \* output_chunks_
QueuedFds == FdEnd(Len(queued)) - sentFds     \* output_fds_
HasOutput == QueuedBytes > 0 \/ QueuedFds > 0
Buffered == rcvd - End(taken)                 \* input_bytes_

\* The next message is complete in the input buffer.
Complete == taken < Len(queued) /\ End(taken + 1) <= rcvd

Smaller(a, b) == IF a <= b THEN a ELSE b

Init ==
  /\ queued = <<>> /\ sent = 0 /\ sentFds = 0 /\ mark = <<>>
  /\ tx = "idle" /\ pollout = FALSE /\ dead = FALSE
  /\ rcvd = 0 /\ rcvdFds = 0 /\ taken = 0 /\ takenFds = 0
  /\ rx = "idle" /\ gotAny = FALSE /\ rxFailed = FALSE /\ handled = <<>>

----------------------------------------------------------------------------
(* The server side. *)

Enqueue(s) ==
  /\ Len(queued) < MaxMessages
  /\ queued' = Append(queued, [end |-> End(Len(queued)) + s.size,
                               fdEnd |-> FdEnd(Len(queued)) + s.fds])

\* Client::send_event: the event is queued and EPOLLOUT armed.
SendEvent(s) ==
  /\ tx = "idle" /\ ~dead
  /\ Enqueue(s)
  /\ pollout' = TRUE
  /\ UNCHANGED <<sent, sentFds, mark, tx, dead, rxVars>>

\* Client::post_error: nothing is queued any more; the error is flushed at once.
PostError(s) ==
  /\ tx = "idle" /\ ~dead
  /\ s.fds = 0
  /\ Enqueue(s)
  /\ dead' = TRUE
  /\ tx' = "flushing"
  /\ UNCHANGED <<sent, sentFds, mark, pollout, rxVars>>

\* The epoll callback because of EPOLLOUT.
WritableFlush ==
  /\ tx = "idle" /\ pollout
  /\ sent - rcvd < SocketSpace \/ rx = "closed"
  /\ tx' = "flushing"
  /\ UNCHANGED <<queued, sent, sentFds, mark, pollout, dead, rxVars>>

\* The epoll callback because of a request, or flush_clients().
OtherFlush ==
  /\ tx = "idle"
  /\ tx' = "flushing"
  /\ UNCHANGED <<queued, sent, sentFds, mark, pollout, dead, rxVars>>

\* What one sendmsg is offered: a single byte while more than one batch of
\* descriptors is waiting.
OfferedWhole == QueuedBytes    \* mutant: descriptors are never paced
Offered == IF QueuedFds > MaxFdsPerSend THEN 1 ELSE QueuedBytes

SendBatch ==
  /\ tx = "flushing" /\ rx # "closed"
  /\ QueuedBytes > 0
  /\ \E n \in 1 .. Smaller(Offered, SocketSpace - (sent - rcvd)) :
       LET fds == sentFds + Smaller(QueuedFds, MaxFdsPerSend)
       IN  /\ sent' = sent + n
           /\ sentFds' = fds
           /\ mark' = mark \o [b \in 1 .. n |-> fds]
  /\ UNCHANGED <<queued, tx, pollout, dead, rxVars>>

\* The callback keeps EPOLLOUT armed while there is output; post_error leaves
\* the mask alone.
MaskDropped == IF dead THEN pollout ELSE FALSE        \* mutant
MaskAfterFlush == IF dead THEN pollout ELSE HasOutput

\* flush() returns: nothing is left, the socket is full, or the peer is gone.
FlushEnd ==
  /\ tx = "flushing"
  /\ \/ QueuedBytes = 0
     \/ sent - rcvd >= SocketSpace
     \/ rx = "closed"
  /\ tx' = "idle"
  /\ pollout' = MaskAfterFlush
  /\ UNCHANGED <<queued, sent, sentFds, mark, dead, rxVars>>

\* Client::destroy, after an error, a hang-up or at the server's will: what is
\* still queued is dropped with the Connection.
ServerClose ==
  /\ tx = "idle"
  /\ tx' = "closed"
  /\ UNCHANGED <<queued, sent, sentFds, mark, pollout, dead, rxVars>>

----------------------------------------------------------------------------
(* The client side. *)

\* client Display::dispatch: poll() reports POLLIN, read_available() starts.
PollIn ==
  /\ rx = "idle"
  /\ rcvd < sent \/ tx = "closed"
  /\ rx' = "reading" /\ gotAny' = FALSE
  /\ UNCHANGED <<txVars, rcvd, rcvdFds, taken, takenFds, rxFailed, handled>>

LeaveHungUp(any, failed) ==   \* mutant: a state of its own for end of file
  rx' = IF any THEN "dispatching" ELSE IF failed THEN "hungup" ELSE "idle"
\* After the read loop: dispatch what was read, otherwise give up or wait.
Leave(any, failed) ==
  rx' = IF any THEN "dispatching" ELSE IF failed THEN "closed" ELSE "idle"

\* kMaxBufferedInput is checked after the chunk has been buffered.
OverCap(n) == Buffered + n > MaxBuffered

\* One recvmsg() that returns data.
Receive ==
  /\ rx = "reading"
  /\ \E n \in 1 .. Smaller(RecvChunk, sent - rcvd) :
       /\ rcvd' = rcvd + n
       /\ rcvdFds' = MarkAt(rcvd + n)
       /\ gotAny' = TRUE
       /\ rxFailed' = (rxFailed \/ OverCap(n))
       /\ IF OverCap(n) THEN Leave(TRUE, TRUE) ELSE rx' = rx
  /\ UNCHANGED <<txVars, taken, takenFds, handled>>

\* recvmsg() could not install every descriptor (MSG_CTRUNC).
ReceiveTruncated ==
  /\ rx = "reading"
  /\ \E n \in 1 .. Smaller(RecvChunk, sent - rcvd) :
       \E f \in rcvdFds .. (MarkAt(rcvd + n) - 1) : rcvdFds' = f
  /\ rxFailed' = TRUE
  /\ Leave(gotAny, TRUE)
  /\ UNCHANGED <<txVars, rcvd, taken, takenFds, gotAny, handled>>

\* recvmsg() has nothing more: EAGAIN while the peer lives, end of file after.
ReceiveNothing ==
  /\ rx = "reading" /\ rcvd = sent
  /\ rxFailed' = (tx = "closed")
  /\ Leave(gotAny, tx = "closed")
  /\ UNCHANGED <<txVars, rcvd, rcvdFds, taken, takenFds, gotAny, handled>>

\* One turn of dispatch_messages(): the handler reads the descriptors of its
\* signature from those that are there and the message is consumed with them.
\* It throws when one is missing, or for a reason of its own.
Dispatch ==
  /\ rx = "dispatching" /\ Complete
  /\ LET want == FdEnd(taken + 1) - FdEnd(taken)
         got  == Smaller(want, rcvdFds - takenFds)
     IN  /\ takenFds' = takenFds + got
         /\ handled' = Append(handled, (takenFds + 1) .. (takenFds + got))
         /\ rx' \in IF got < want THEN {"closed"} ELSE {"dispatching", "closed"}
  /\ taken' = taken + 1
  /\ UNCHANGED <<txVars, rcvd, rcvdFds, gotAny, rxFailed>>

DispatchEnd ==
  /\ rx = "dispatching" /\ ~Complete
  /\ rx' = IF rxFailed THEN "closed" ELSE "idle"
  /\ UNCHANGED <<txVars, rcvd, rcvdFds, taken, takenFds, gotAny, rxFailed, handled>>

----------------------------------------------------------------------------
ServerStep ==
  \/ \E s \in Shapes : SendEvent(s) \/ PostError(s)
  \/ WritableFlush \/ OtherFlush \/ SendBatch \/ FlushEnd \/ ServerClose

ClientStep ==
  \/ PollIn \/ Receive \/ ReceiveTruncated \/ ReceiveNothing
  \/ Dispatch \/ DispatchEnd

Next == ServerStep \/ ClientStep

Spec == Init /\ [][Next]_vars

\* Both event loops keep running: a writable socket is flushed, and a client
\* that has been woken reads and dispatches.
Fairness ==
  /\ WF_vars(WritableFlush)
  /\ WF_vars(SendBatch \/ FlushEnd)
  /\ WF_vars(PollIn)
  /\ WF_vars(Receive \/ ReceiveNothing)
  /\ WF_vars(Dispatch \/ DispatchEnd)

FairSpec == Spec /\ Fairness

----------------------------------------------------------------------------
TypeOK ==
  /\ queued \in Seq(Message)
  /\ sent \in Nat /\ sentFds \in Nat /\ mark \in Seq(Nat)
  /\ tx \in {"idle", "flushing", "closed"}
  /\ pollout \in BOOLEAN /\ dead \in BOOLEAN
  /\ rcvd \in Nat /\ rcvdFds \in Nat /\ taken \in Nat /\ takenFds \in Nat
  /\ rx \in {"idle", "reading", "dispatching", "closed"}
  /\ gotAny \in BOOLEAN /\ rxFailed \in BOOLEAN
  /\ handled \in Seq(SUBSET Nat)

\* A message whose bytes have all been read has all of its descriptors too, so
\* that a handler never throws "message expected an FD but none were received"
\* on a connection whose messages are well formed (flush() 165-170, 184-190).
FdsComplete ==
  \A i \in 1 .. Len(queued) : End(i) <= rcvd => FdEnd(i) <= rcvdFds

\* flush() never runs out of bytes before it runs out of descriptors: a
\* descriptor left in output_fds_ with no chunk would never be sent.
NoStrandedFds == QueuedBytes = 0 => QueuedFds = 0

\* A live client with output waits for EPOLLOUT whenever the server is back in
\* its event loop (client_output_changed, the mask set by add_client's callback).
OutputArmed == (tx = "idle" /\ ~dead /\ HasOutput) => pollout

\* read_available() drains the socket without dispatching, yet holds at most
\* one chunk more than the cap.
InputBounded == Buffered <= MaxBuffered + RecvChunk

\* Every message is handled in order and with its own descriptors: the
\* connection implements the channel of WireChannel.
FdEnds == [i \in 1 .. Len(queued) |-> queued[i].fdEnd]
Channel == INSTANCE WireChannel WITH
  Counts <- {s.fds : s \in Shapes},
  fdEnd <- FdEnds,
  open <- rx # "closed" /\ tx # "closed"
ImplementsChannel == Channel!Spec

\* The client always catches up: every message the server has queued is handled in
\* the end, unless one of the sides closes.
EventuallyHandled ==
  []<>(taken = Len(queued) \/ rx = "closed" \/ tx = "closed" \/ dead)
=============================================================================
