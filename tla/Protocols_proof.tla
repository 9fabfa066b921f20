-------------------------- MODULE Protocols_proof --------------------------
(***************************************************************************)
(* The two conversations, for every value of their constants: what a       *)
(* connection carries, and what a layout provider is asked and answers.    *)
(***************************************************************************)
EXTENDS ProtocolsMC, TLAPS, FiniteSetTheorems

---------------------------------------------------------------------------
(* The inductive invariant. *)

\* Message ends grow.
Ordered ==
  \A i, j \in 0 .. Len(queued) :
    i <= j => End(i) <= End(j) /\ FdEnd(i) <= FdEnd(j)

\* The kernel's marks grow and end at the descriptors handed over so far.
Marked ==
  /\ Len(mark) = sent
  /\ MarkAt(sent) = sentFds
  /\ \A b, c \in 0 .. sent : b <= c => MarkAt(b) <= MarkAt(c)

\* What is handed over was queued before.
SentBounded == sent <= End(Len(queued)) /\ sentFds <= FdEnd(Len(queued))

\* The descriptors of a message that was sent went with its bytes or earlier.
CoveredSent ==
  \A i \in 0 .. Len(queued) : End(i) <= sent => FdEnd(i) <= MarkAt(End(i))

\* Every unsent message has a byte left for each batch of descriptors up to it.
CoveredPending ==
  \A i \in 0 .. Len(queued) :
    sent <= End(i) => FdEnd(i) - sentFds <= MaxFdsPerSend * (End(i) - sent)

\* The reading side is behind the kernel and ahead of the handlers.
Received ==
  /\ rcvd <= sent
  /\ MarkAt(rcvd) <= rcvdFds
  /\ taken <= Len(queued) /\ End(taken) <= rcvd
  /\ takenFds = FdEnd(taken) /\ Len(handled) = taken

\* The cap is exceeded only on the way out.
Capped ==
  /\ ~rxFailed => Buffered <= MaxBuffered
  /\ Buffered <= MaxBuffered + RecvChunk
  /\ rx \in {"idle", "reading"} => ~rxFailed

IInv ==
  /\ TypeOK /\ Ordered /\ Marked /\ SentBounded /\ CoveredSent
  /\ CoveredPending /\ Received /\ Capped /\ OutputArmed

---------------------------------------------------------------------------
(* Facts about ends and marks. *)

LEMMA Distribute ==
  \A m, a, b \in Int : m * (a + b) = m * a + m * b
OBVIOUS

LEMMA Product == \A m, a \in Int : m * a \in Int
OBVIOUS

\* Appending k copies of v to a sequence of numbers.
LEMMA Extend ==
  ASSUME NEW m \in Seq(Nat), NEW k \in Nat, NEW v \in Nat,
         NEW e, e = m \o [b \in 1 .. k |-> v]
  PROVE  /\ e \in Seq(Nat) /\ Len(e) = Len(m) + k
         /\ \A b \in 1 .. Len(m) : e[b] = m[b]
         /\ \A b \in Len(m) + 1 .. Len(m) + k : e[b] = v
<1> DEFINE t == [b \in 1 .. k |-> v]
<1>1. t \in Seq(Nat) /\ Len(t) = k
  OBVIOUS
<1>2. \A b \in 1 .. k : t[b] = v
  OBVIOUS
<1> HIDE DEF t
<1>3. m \o t \in Seq(Nat) /\ Len(m \o t) = Len(m) + k
  BY <1>1
<1>4. \A b \in 1 .. Len(m) : (m \o t)[b] = m[b]
  BY <1>1
<1>5. \A b \in Len(m) + 1 .. Len(m) + k : (m \o t)[b] = v
  <2>1. \A b \in Len(m) + 1 .. Len(m) + k : (m \o t)[b] = t[b - Len(m)] /\ b - Len(m) \in 1 .. k
    BY <1>1
  <2> QED BY <2>1, <1>2
<1> QED BY <1>3, <1>4, <1>5 DEF t

LEMMA EndType ==
  ASSUME queued \in Seq(Message), NEW i \in 0 .. Len(queued)
  PROVE  End(i) \in Nat /\ FdEnd(i) \in Nat
<1>1. CASE i = 0
  BY <1>1 DEF End, FdEnd
<1>2. CASE i # 0
  <2>1. queued[i] \in Message
    BY <1>2
  <2> QED BY <1>2, <2>1 DEF End, FdEnd, Message
<1> QED BY <1>1, <1>2

LEMMA MarkType ==
  ASSUME mark \in Seq(Nat), NEW b \in 0 .. Len(mark)
  PROVE  MarkAt(b) \in Nat
BY DEF MarkAt

\* Queueing a message adds its end and leaves the others alone.
LEMMA EnqueueEnds ==
  ASSUME queued \in Seq(Message), NEW s \in Shapes, Enqueue(s)
  PROVE  /\ queued' \in Seq(Message)
         /\ Len(queued') = Len(queued) + 1
         /\ \A i \in 0 .. Len(queued) : End(i)' = End(i) /\ FdEnd(i)' = FdEnd(i)
         /\ End(Len(queued))' = End(Len(queued)) + s.size
         /\ FdEnd(Len(queued))' = FdEnd(Len(queued)) + s.fds
<1> DEFINE n == Len(queued)
<1> DEFINE m == [end |-> End(n) + s.size, fdEnd |-> FdEnd(n) + s.fds]
<1>1. n \in Nat /\ n \in 0 .. n
  OBVIOUS
<1>2. s.size \in Nat /\ s.fds \in Nat
  BY ShapesAssumption
<1>3. m \in Message
  <2>1. End(n) \in Nat /\ FdEnd(n) \in Nat
    BY <1>1, EndType
  <2>2. End(n) + s.size \in Nat /\ FdEnd(n) + s.fds \in Nat
    BY <2>1, <1>2
  <2> QED BY <2>2 DEF Message
<1>4. queued' = Append(queued, m)
  BY DEF Enqueue
<1>5. queued' \in Seq(Message) /\ Len(queued') = n + 1 /\ queued'[n + 1] = m
  BY <1>3, <1>4
<1>6. \A i \in 1 .. n : queued'[i] = queued[i]
  BY <1>4
<1>7. \A i \in 0 .. n : End(i)' = End(i) /\ FdEnd(i)' = FdEnd(i)
  BY <1>6 DEF End, FdEnd
<1>8. End(Len(queued))' = End(n) + s.size /\ FdEnd(Len(queued))' = FdEnd(n) + s.fds
  <2>1. Len(queued') # 0 /\ queued'[Len(queued')] = m
    BY <1>1, <1>5
  <2> QED BY <2>1 DEF End, FdEnd
<1> HIDE DEF n, m
<1> QED BY <1>5, <1>7, <1>8 DEF n

---------------------------------------------------------------------------
(* The invariant holds initially and is preserved by every action. *)

LEMMA InvInit == Init => IInv
<1> SUFFICES ASSUME Init PROVE IInv
  OBVIOUS
<1> USE DEF Init
<1>1. queued \in Seq(Message) /\ mark \in Seq(Nat) /\ handled \in Seq(SUBSET Nat)
  OBVIOUS
<1>2. TypeOK
  BY <1>1 DEF TypeOK
<1>3. Len(queued) = 0 /\ Len(mark) = 0 /\ Len(handled) = 0
  OBVIOUS
<1>4. Ordered /\ Marked /\ SentBounded /\ CoveredSent /\ CoveredPending
  BY <1>3, LimitsAssumption
     DEF Ordered, Marked, SentBounded, CoveredSent, CoveredPending, End, FdEnd, MarkAt
<1>5. Received /\ Capped /\ OutputArmed
  BY <1>3, LimitsAssumption
     DEF Received, Capped, OutputArmed, Buffered, End, FdEnd, MarkAt, HasOutput,
         QueuedBytes, QueuedFds
<1> QED BY <1>2, <1>4, <1>5 DEF IInv

\* Queueing a message keeps everything that was promised about the others, and
\* the new one fits its descriptors into its own bytes.
LEMMA EnqueueInv ==
  ASSUME IInv, NEW s \in Shapes, Enqueue(s), UNCHANGED <<sent, sentFds, mark>>,
         UNCHANGED rxVars
  PROVE  /\ queued' \in Seq(Message)
         /\ Ordered' /\ Marked' /\ SentBounded' /\ CoveredSent'
         /\ CoveredPending' /\ Received' /\ Capped'
<1> DEFINE n == Len(queued)
<1>0. /\ queued \in Seq(Message) /\ sent \in Nat /\ sentFds \in Nat /\ n \in Nat
      /\ MaxFdsPerSend \in Nat
      /\ sent <= End(n) /\ sentFds <= FdEnd(n)
  BY LimitsAssumption DEF IInv, TypeOK, SentBounded
<1>1. /\ queued' \in Seq(Message) /\ Len(queued') = n + 1
      /\ \A i \in 0 .. n : End(i)' = End(i) /\ FdEnd(i)' = FdEnd(i)
      /\ End(Len(queued))' = End(n) + s.size
      /\ FdEnd(Len(queued))' = FdEnd(n) + s.fds
  BY <1>0, EnqueueEnds
<1>2. \A i : i = n + 1 => End(i)' = End(n) + s.size /\ FdEnd(i)' = FdEnd(n) + s.fds
  BY <1>1
<1>3. s.size \in Nat /\ s.fds \in Nat /\ s.size > 0
  BY ShapesAssumption, LimitsAssumption
<1>13. s.fds <= MaxFdsPerSend * s.size
  BY ShapesAssumption
<1>4. \A i \in 0 .. n : End(i) \in Nat /\ FdEnd(i) \in Nat
  BY <1>0, EndType
<1>5. \A i \in 0 .. Len(queued') : i \in 0 .. n \/ i = n + 1
  BY <1>0, <1>1
<1>6. n \in 0 .. n /\ n + 1 \notin 0 .. n
  BY <1>0
<1> HIDE DEF n
<1>7. Ordered'
  <2> SUFFICES ASSUME NEW i \in 0 .. Len(queued'), NEW j \in 0 .. Len(queued'), i <= j
               PROVE  End(i)' <= End(j)' /\ FdEnd(i)' <= FdEnd(j)'
    BY DEF Ordered
  <2>0. \A k, l \in 0 .. n : k <= l => End(k) <= End(l) /\ FdEnd(k) <= FdEnd(l)
    BY DEF IInv, Ordered, n
  <2>1. CASE i \in 0 .. n /\ j \in 0 .. n
    BY <2>0, <2>1, <1>1
  <2>2. CASE i \in 0 .. n /\ j = n + 1
    <3>1. End(i) <= End(n) /\ FdEnd(i) <= FdEnd(n)
      BY <2>0, <2>2, <1>0, <1>6
    <3>2. End(i)' = End(i) /\ FdEnd(i)' = FdEnd(i)
      BY <2>2, <1>1
    <3>3. End(j)' = End(n) + s.size /\ FdEnd(j)' = FdEnd(n) + s.fds
      BY <2>2, <1>2
    <3> QED BY SMTT(30), <3>1, <3>2, <3>3, <1>3, <1>4, <1>6, <2>2
  <2>3. CASE i = n + 1 /\ j = n + 1
    BY SMTT(30), <2>3, <1>2, <1>3, <1>4, <1>6
  <2> QED BY <2>1, <2>2, <2>3, <1>5, <1>0
<1>8. Marked'
  BY DEF IInv, Marked, MarkAt
<1>9. SentBounded'
  <2>1. s.size \in Nat /\ s.fds \in Nat
    BY <1>3
  <2>2. End(n) \in Nat /\ FdEnd(n) \in Nat
    BY <1>4, <1>6
  <2>3. sent <= End(n) + s.size /\ sentFds <= FdEnd(n) + s.fds
    BY <2>1, <2>2, <1>0
  <2>4. sent' = sent /\ sentFds' = sentFds
    OBVIOUS
  <2> QED BY <2>3, <2>4, <1>1 DEF SentBounded
<1>10. CoveredSent'
  <2> SUFFICES ASSUME NEW i \in 0 .. Len(queued'), End(i)' <= sent
               PROVE  FdEnd(i)' <= MarkAt(End(i)')
    BY DEF CoveredSent, MarkAt
  <2>1. CASE i \in 0 .. n
    BY <2>1, <1>1 DEF IInv, CoveredSent, n
  <2>2. CASE i = n + 1
    BY <2>2, <1>0, <1>2, <1>3, <1>4, <1>6
  <2> QED BY <2>1, <2>2, <1>5
<1>11. CoveredPending'
  <2> SUFFICES ASSUME NEW i \in 0 .. Len(queued'), sent <= End(i)'
               PROVE  FdEnd(i)' - sentFds <= MaxFdsPerSend * (End(i)' - sent)
    BY DEF CoveredPending
  <2>1. CASE i \in 0 .. n
    BY <2>1, <1>1 DEF IInv, CoveredPending, n
  <2>2. CASE i = n + 1
    <3>1. FdEnd(n) - sentFds <= MaxFdsPerSend * (End(n) - sent)
      BY <1>0, <1>6 DEF IInv, CoveredPending, n
    <3>2. End(i)' - sent = (End(n) - sent) + s.size
      BY <2>2, <1>0, <1>2, <1>3, <1>4, <1>6
    <3>3. FdEnd(i)' - sentFds = (FdEnd(n) - sentFds) + s.fds
      BY <2>2, <1>0, <1>2, <1>3, <1>4, <1>6
    <3>4. MaxFdsPerSend * ((End(n) - sent) + s.size)
            = MaxFdsPerSend * (End(n) - sent) + MaxFdsPerSend * s.size
      BY <1>0, <1>3, <1>4, <1>6, Distribute
    <3>5. /\ MaxFdsPerSend * (End(n) - sent) \in Int /\ MaxFdsPerSend * s.size \in Int
          /\ FdEnd(n) - sentFds \in Int
      <4>1. End(n) - sent \in Int /\ FdEnd(n) - sentFds \in Int /\ s.size \in Int
        BY <1>0, <1>3, <1>4, <1>6
      <4> QED BY <4>1, <1>0, Product
    <3> QED BY <3>1, <3>2, <3>3, <3>4, <3>5, <1>3, <1>13
  <2> QED BY <2>1, <2>2, <1>5
<1>12. Received' /\ Capped'
  <2>1. taken \in 0 .. n
    BY DEF IInv, TypeOK, Received, n
  <2>2. End(taken)' = End(taken) /\ FdEnd(taken)' = FdEnd(taken)
    <3>1. taken' = taken
      BY DEF rxVars
    <3> QED BY <3>1, <2>1, <1>1
  <2>3. taken <= n + 1
    BY <2>1, <1>0
  <2> QED BY <1>1, <2>1, <2>2, <2>3 DEF IInv, Received, Capped, Buffered, MarkAt, rxVars, n
<1> QED BY <1>1, <1>7, <1>8, <1>9, <1>10, <1>11, <1>12

\* A batch of descriptors: either all that were waiting go with the bytes, or
\* MaxFdsPerSend of them go with a single byte.
LEMMA SendBatchInv == IInv /\ SendBatch => IInv'
<1> SUFFICES ASSUME IInv, SendBatch PROVE IInv'
  OBVIOUS
<1> DEFINE n == Len(queued)
           M == MaxFdsPerSend
           fds == sentFds + Smaller(QueuedFds, M)
<1>1. /\ queued \in Seq(Message) /\ mark \in Seq(Nat) /\ n \in Nat /\ M \in Nat
      /\ sent \in Nat /\ sentFds \in Nat /\ rcvd \in Nat
      /\ sent <= End(n) /\ sentFds <= FdEnd(n) /\ Len(mark) = sent
  BY LimitsAssumption DEF IInv, TypeOK, SentBounded, Marked
<1>2. \A i \in 0 .. n : End(i) \in Nat /\ FdEnd(i) \in Nat
  BY <1>1, EndType
<1>3. End(n) \in Nat /\ FdEnd(n) \in Nat
  BY <1>1, <1>2
<1>4. QueuedBytes = End(n) - sent /\ QueuedFds = FdEnd(n) - sentFds
  BY DEF QueuedBytes, QueuedFds
<1>5. PICK k \in 1 .. Smaller(Offered, SocketSpace - (sent - rcvd)) :
        sent' = sent + k /\ sentFds' = fds /\ mark' = mark \o [b \in 1 .. k |-> fds]
  BY DEF SendBatch
<1>6. fds \in Nat /\ sentFds <= fds /\ fds <= FdEnd(n)
  BY <1>1, <1>3, <1>4 DEF Smaller
<1>7. k \in Nat /\ k >= 1 /\ k <= End(n) - sent
  <2>1. SocketSpace - (sent - rcvd) \in Int /\ Offered \in Int /\ Offered <= End(n) - sent
    <3>1. QueuedBytes > 0
      BY DEF SendBatch
    <3> QED BY <3>1, <1>1, <1>3, <1>4, LimitsAssumption DEF Offered
  <2> QED BY <1>1, <1>3, <2>1 DEF Smaller
<1>8. (FdEnd(n) - sentFds > M /\ k = 1 /\ fds = sentFds + M) \/ fds = FdEnd(n)
  <2>1. CASE FdEnd(n) - sentFds > M
    <3>1. Offered = 1 /\ fds = sentFds + M
      BY <2>1, <1>1, <1>3, <1>4 DEF Offered, Smaller
    <3>2. k <= 1
      BY <3>1, <1>1, LimitsAssumption DEF Smaller
    <3> QED BY <2>1, <3>1, <3>2, <1>7
  <2>2. CASE ~(FdEnd(n) - sentFds > M)
    BY <2>2, <1>1, <1>3, <1>4 DEF Smaller
  <2> QED BY <2>1, <2>2
<1> HIDE DEF fds
<1>9. /\ mark' \in Seq(Nat) /\ Len(mark') = sent + k
      /\ \A b \in 1 .. sent : mark'[b] = mark[b]
      /\ \A b \in sent + 1 .. sent + k : mark'[b] = fds
  <2>1. mark \in Seq(Nat) /\ k \in Nat /\ fds \in Nat /\ mark' = mark \o [b \in 1 .. k |-> fds]
    BY <1>1, <1>5, <1>6, <1>7
  <2>2. /\ mark' \in Seq(Nat) /\ Len(mark') = Len(mark) + k
        /\ \A b \in 1 .. Len(mark) : mark'[b] = mark[b]
        /\ \A b \in Len(mark) + 1 .. Len(mark) + k : mark'[b] = fds
    BY <2>1, Extend
  <2> QED BY <2>2, <1>1
<1>10. /\ \A b \in 0 .. sent : MarkAt(b)' = MarkAt(b)
       /\ \A b \in sent + 1 .. sent + k : MarkAt(b)' = fds
  BY <1>1, <1>7, <1>9 DEF MarkAt
<1>11. \A b \in 0 .. sent : MarkAt(b) \in Nat /\ MarkAt(b) <= sentFds
  <2>1. \A b \in 0 .. sent : MarkAt(b) \in Nat
    BY <1>1, MarkType
  <2> QED BY <2>1, <1>1 DEF IInv, Marked
<1>12. /\ UNCHANGED <<queued, tx, pollout, dead>> /\ UNCHANGED rxVars
       /\ \A i : End(i)' = End(i) /\ FdEnd(i)' = FdEnd(i)
  BY DEF SendBatch, End, FdEnd
<1>13. tx = "flushing"
  BY DEF SendBatch
<1>14. TypeOK'
  BY <1>1, <1>5, <1>6, <1>7, <1>9, <1>12 DEF IInv, TypeOK, rxVars
<1>15. Ordered'
  BY <1>12 DEF IInv, Ordered
<1>16. Marked'
  <2> SUFFICES ASSUME NEW b \in 0 .. sent + k, NEW c \in 0 .. sent + k, b <= c
               PROVE  MarkAt(b)' <= MarkAt(c)'
    <3>1. MarkAt(sent)' = fds
      <4>1. \A b \in sent + 1 .. sent + k : b = sent' => MarkAt(b)' = fds
        BY <1>10
      <4> QED BY <4>1, <1>1, <1>5, <1>7
    <3>2. sent' = sent + k /\ sentFds' = fds /\ Len(mark') = sent'
      BY <1>5, <1>9
    <3> QED BY <3>1, <3>2 DEF Marked
  <2>1. CASE b \in 0 .. sent /\ c \in 0 .. sent
    BY <2>1, <1>10 DEF IInv, Marked
  <2>2. CASE b \in 0 .. sent /\ c \in sent + 1 .. sent + k
    BY <2>2, <1>1, <1>6, <1>10, <1>11
  <2>3. CASE b \in sent + 1 .. sent + k /\ c \in sent + 1 .. sent + k
    BY <2>3, <1>6, <1>10
  <2> QED BY <2>1, <2>2, <2>3, <1>1, <1>7
<1>17. SentBounded'
  BY <1>1, <1>3, <1>5, <1>6, <1>7, <1>12 DEF SentBounded
<1>18. ASSUME NEW i \in 0 .. n PROVE FdEnd(i) <= FdEnd(n)
  BY <1>1, <1>2, <1>18 DEF IInv, Ordered
<1>19. CoveredSent'
  <2> SUFFICES ASSUME NEW i \in 0 .. n, End(i) <= sent + k
               PROVE  \A b : b = End(i) => FdEnd(i) <= MarkAt(b)'
    BY <1>5, <1>12 DEF CoveredSent
  <2>1. CASE End(i) <= sent
    BY <2>1, <1>2, <1>10 DEF IInv, CoveredSent
  <2>2. CASE End(i) > sent
    <3>1. End(i) \in sent + 1 .. sent + k
      BY <2>2, <1>1, <1>2, <1>7
    <3>2. FdEnd(i) <= fds
      <4>1. CASE fds = FdEnd(n)
        BY <4>1, <1>18
      <4>2. CASE k = 1 /\ fds = sentFds + M
        <5>1. FdEnd(i) - sentFds <= M * (End(i) - sent)
          BY <2>2, <1>1, <1>2 DEF IInv, CoveredPending
        <5>2. End(i) - sent = 1
          BY <3>1, <4>2, <1>1, <1>2
        <5> QED BY <5>1, <5>2, <4>2, <1>1, <1>2
      <4> QED BY <4>1, <4>2, <1>8
    <3> QED BY <3>1, <3>2, <1>10
  <2> QED BY <2>1, <2>2, <1>1, <1>2
<1>20. CoveredPending'
  <2> SUFFICES ASSUME NEW i \in 0 .. n, sent + k <= End(i)
               PROVE  FdEnd(i) - fds <= M * (End(i) - (sent + k))
    BY <1>5, <1>12 DEF CoveredPending
  <2>0. End(i) \in Nat /\ FdEnd(i) \in Nat
    BY <1>2
  <2>1. CASE fds = FdEnd(n)
    <3>1. FdEnd(i) - fds <= 0
      BY <2>0, <2>1, <1>3, <1>18
    <3>2. M * (End(i) - (sent + k)) >= 0
      BY SMTT(30), <2>0, <1>1, <1>7
    <3>3. FdEnd(i) - fds \in Int /\ M * (End(i) - (sent + k)) \in Int
      BY <2>0, <1>1, <1>6, <1>7
    <3> QED BY <3>1, <3>2, <3>3
  <2>2. CASE k = 1 /\ fds = sentFds + M
    <3>1. FdEnd(i) - sentFds <= M * (End(i) - sent)
      BY <2>0, <2>2, <1>1 DEF IInv, CoveredPending
    <3>2. M * ((End(i) - (sent + 1)) + 1) = M * (End(i) - (sent + 1)) + M * 1
      BY <2>0, <1>1, Distribute
    <3>3. (End(i) - (sent + 1)) + 1 = End(i) - sent /\ M * 1 = M
      BY <2>0, <1>1
    <3>4. M * (End(i) - (sent + 1)) \in Int
      BY <2>0, <1>1
    <3>5. FdEnd(i) - sentFds <= M * (End(i) - (sent + 1)) + M
      BY <3>1, <3>2, <3>3
    <3>6. FdEnd(i) - (sentFds + M) <= M * (End(i) - (sent + 1))
      BY SMTT(30), <2>0, <3>4, <3>5, <1>1
    <3> QED BY <2>2, <3>6
  <2> QED BY <2>1, <2>2, <1>8
<1>21. Received'
  <2>1. rcvd \in 0 .. sent
    BY <1>1 DEF IInv, Received
  <2>2. MarkAt(rcvd)' = MarkAt(rcvd)
    <3>1. rcvd' = rcvd
      BY <1>12 DEF rxVars
    <3>2. \A b : b = rcvd => MarkAt(b)' = MarkAt(rcvd)
      BY <2>1, <1>10
    <3> QED BY <3>1, <3>2 DEF MarkAt
  <2>3. rcvd <= sent + k
    BY <2>1, <1>1, <1>7
  <2>4. End(taken)' = End(taken) /\ FdEnd(taken)' = FdEnd(taken)
    BY <1>12 DEF rxVars, End, FdEnd
  <2> QED BY <2>2, <2>3, <2>4, <1>5, <1>12 DEF IInv, Received, rxVars
<1>22. Capped'
  BY <1>12 DEF IInv, Capped, Buffered, rxVars, End
<1>23. OutputArmed'
  BY <1>12, <1>13 DEF OutputArmed
<1> QED
  BY <1>14, <1>15, <1>16, <1>17, <1>19, <1>20, <1>21, <1>22, <1>23 DEF IInv

---------------------------------------------------------------------------
(* The reading side leaves the sender's half of the invariant alone. *)

LEMMA SenderFrame ==
  ASSUME IInv, UNCHANGED txVars
  PROVE  /\ Ordered' /\ Marked' /\ SentBounded' /\ CoveredSent'
         /\ CoveredPending' /\ OutputArmed'
         /\ \A i : End(i)' = End(i) /\ FdEnd(i)' = FdEnd(i) /\ MarkAt(i)' = MarkAt(i)
<1>1. \A i : End(i)' = End(i) /\ FdEnd(i)' = FdEnd(i) /\ MarkAt(i)' = MarkAt(i)
  BY DEF txVars, End, FdEnd, MarkAt
<1>2. UNCHANGED <<queued, sent, sentFds, mark, tx, pollout, dead>>
  BY DEF txVars
<1>3. Ordered' /\ Marked' /\ SentBounded'
  BY <1>1, <1>2 DEF IInv, Ordered, Marked, SentBounded, End, FdEnd, MarkAt
<1>4. CoveredSent' /\ CoveredPending'
  BY <1>1, <1>2 DEF IInv, CoveredSent, CoveredPending, End, FdEnd, MarkAt
<1>5. OutputArmed'
  BY <1>2 DEF IInv, OutputArmed, HasOutput, QueuedBytes, QueuedFds, End, FdEnd
<1> QED BY <1>1, <1>3, <1>4, <1>5

\* Reading moves rcvd towards sent and takes the descriptors that came along.
LEMMA ReceiveInv ==
  ASSUME IInv, Receive \/ ReceiveTruncated
  PROVE  IInv'
<1>0. /\ UNCHANGED txVars /\ UNCHANGED <<taken, takenFds, handled>>
      /\ rx = "reading" /\ rx' \in {"reading", "dispatching", "closed"}
      /\ gotAny' \in BOOLEAN
  BY DEF Receive, ReceiveTruncated, Leave, IInv, TypeOK
<1>1. /\ queued \in Seq(Message) /\ mark \in Seq(Nat) /\ Len(mark) = sent
      /\ sent \in Nat /\ rcvd \in Nat /\ rcvdFds \in Nat /\ taken \in Nat
      /\ rcvd <= sent /\ MarkAt(rcvd) <= rcvdFds /\ RecvChunk \in Nat
      /\ taken <= Len(queued) /\ Len(queued) \in Nat /\ End(taken) <= rcvd
  BY LimitsAssumption DEF IInv, TypeOK, Marked, Received
<1>2. End(taken) \in Nat
  BY <1>1, EndType
<1>3. \A b \in 0 .. sent : MarkAt(b) \in Nat
  BY <1>1, MarkType
<1>4. /\ \A i : End(i)' = End(i) /\ FdEnd(i)' = FdEnd(i) /\ MarkAt(i)' = MarkAt(i)
      /\ Ordered' /\ Marked' /\ SentBounded' /\ CoveredSent' /\ CoveredPending'
      /\ OutputArmed'
  BY <1>0, SenderFrame
<1>5. End(taken)' = End(taken) /\ FdEnd(taken)' = FdEnd(taken)
  BY <1>0 DEF End, FdEnd, txVars
<1>6. ~rxFailed /\ Buffered <= MaxBuffered
  BY <1>0 DEF IInv, Capped
<1>7. CASE Receive
  <2>1. PICK k \in 1 .. Smaller(RecvChunk, sent - rcvd) :
          /\ rcvd' = rcvd + k /\ rcvdFds' = MarkAt(rcvd + k)
          /\ rxFailed' = (rxFailed \/ Buffered + k > MaxBuffered)
          /\ Buffered + k > MaxBuffered => rx' = "dispatching"
    BY <1>7 DEF Receive, Leave, OverCap
  <2>2. k \in Nat /\ k <= RecvChunk /\ rcvd + k \in 0 .. sent
    BY <1>1 DEF Smaller
  <2>3. MarkAt(rcvd)' = MarkAt(rcvd + k) /\ MarkAt(rcvd + k) \in Nat
    BY <1>0, <1>3, <2>1, <2>2 DEF MarkAt, txVars
  <2>4. Buffered' = Buffered + k /\ Buffered \in Int
    BY SMTT(30), <1>0, <1>1, <1>2, <1>5, <2>1, <2>2 DEF Buffered
  <2>5. TypeOK'
    BY <1>0, <1>1, <2>1, <2>2, <2>3, <1>6 DEF IInv, TypeOK, txVars
  <2>6. Received'
    BY SMTT(30), <1>0, <1>1, <1>2, <1>5, <2>1, <2>2, <2>3 DEF IInv, Received, txVars
  <2>7. Capped'
    <3>1. rxFailed' <=> Buffered + k > MaxBuffered
      BY <1>6, <2>1
    <3>2. Buffered + k <= MaxBuffered + RecvChunk
      BY <1>6, <2>2, <2>4, LimitsAssumption
    <3>3. ~(Buffered + k > MaxBuffered) => Buffered + k <= MaxBuffered
      BY <2>2, <2>4, LimitsAssumption
    <3>4. Buffered + k > MaxBuffered => rx' = "dispatching"
      BY <2>1
    <3> QED BY <3>1, <3>2, <3>3, <3>4, <2>4 DEF Capped
  <2> QED BY <1>4, <2>5, <2>6, <2>7 DEF IInv
<1>8. CASE ReceiveTruncated
  <2>1. /\ rcvd' = rcvd /\ rxFailed' = TRUE /\ rx' \in {"dispatching", "closed"}
    BY <1>8 DEF ReceiveTruncated, Leave
  <2>2. PICK k \in 1 .. Smaller(RecvChunk, sent - rcvd) :
          rcvdFds' \in rcvdFds .. (MarkAt(rcvd + k) - 1)
    BY <1>8 DEF ReceiveTruncated
  <2>3. rcvd + k \in 0 .. sent
    BY <1>1 DEF Smaller
  <2>4. rcvdFds' \in Nat /\ rcvdFds <= rcvdFds'
    BY <1>1, <1>3, <2>2, <2>3
  <2>5. MarkAt(rcvd)' = MarkAt(rcvd) /\ MarkAt(rcvd) \in Nat /\ Buffered' = Buffered
    BY <1>0, <1>1, <1>3, <2>1 DEF MarkAt, Buffered, End, txVars
  <2>6. TypeOK'
    BY <1>0, <2>1, <2>4 DEF IInv, TypeOK, txVars
  <2>7. Received'
    BY <1>0, <1>1, <1>5, <2>1, <2>4, <2>5 DEF IInv, Received, txVars
  <2>8. Capped'
    BY <2>1, <2>5 DEF IInv, Capped
  <2> QED BY <1>4, <2>6, <2>7, <2>8 DEF IInv
<1> QED BY <1>7, <1>8

\* Handling a complete message: all its descriptors are there (FdsComplete), so
\* it is given exactly its own.
LEMMA CompleteFds == IInv => FdsComplete
<1> SUFFICES ASSUME IInv, NEW i \in 1 .. Len(queued), End(i) <= rcvd
             PROVE  FdEnd(i) <= rcvdFds
  BY DEF FdsComplete
<1>1. /\ queued \in Seq(Message) /\ mark \in Seq(Nat) /\ Len(mark) = sent
      /\ sent \in Nat /\ rcvd \in Nat /\ rcvdFds \in Nat
      /\ rcvd <= sent /\ MarkAt(rcvd) <= rcvdFds
  BY DEF IInv, TypeOK, Marked, Received
<1>2. End(i) \in Nat /\ FdEnd(i) \in Nat
  BY <1>1, EndType
<1>3. End(i) \in 0 .. sent /\ rcvd \in 0 .. sent
  BY <1>1, <1>2
<1>4. MarkAt(End(i)) \in Nat /\ MarkAt(rcvd) \in Nat
  BY <1>1, <1>3, MarkType
<1>5. FdEnd(i) <= MarkAt(End(i))
  BY <1>1, <1>3 DEF IInv, CoveredSent
<1>6. MarkAt(End(i)) <= MarkAt(rcvd)
  BY <1>3 DEF IInv, Marked
<1> QED BY <1>1, <1>2, <1>4, <1>5, <1>6

LEMMA DispatchFacts ==
  ASSUME IInv, Dispatch
  PROVE  /\ takenFds' = FdEnd(taken + 1) /\ taken' = taken + 1
         /\ handled' = Append(handled, (takenFds + 1) .. FdEnd(taken + 1))
         /\ rx' \in {"dispatching", "closed"}
         /\ FdEnd(taken) \in Nat /\ FdEnd(taken + 1) \in Nat
         /\ FdEnd(taken) <= FdEnd(taken + 1) /\ FdEnd(taken + 1) <= rcvdFds
         /\ taken + 1 \in 1 .. Len(queued) /\ End(taken + 1) <= rcvd
<1> DEFINE want == FdEnd(taken + 1) - FdEnd(taken)
           got  == Smaller(want, rcvdFds - takenFds)
<1>1. /\ queued \in Seq(Message) /\ taken \in Nat /\ rcvdFds \in Nat
      /\ takenFds = FdEnd(taken) /\ Len(queued) \in Nat
  BY DEF IInv, TypeOK, Received
<1>2. taken + 1 \in 1 .. Len(queued) /\ End(taken + 1) <= rcvd
  BY <1>1 DEF Dispatch, Complete
<1>3. FdEnd(taken + 1) <= rcvdFds
  BY <1>2, CompleteFds DEF FdsComplete
<1>4. FdEnd(taken) \in Nat /\ FdEnd(taken + 1) \in Nat
  BY <1>1, <1>2, EndType
<1>5. FdEnd(taken) <= FdEnd(taken + 1)
  BY <1>1, <1>2 DEF IInv, Ordered
<1>6. got = want /\ takenFds + got = FdEnd(taken + 1)
  BY <1>1, <1>3, <1>4 DEF Smaller
<1>7. /\ takenFds' = takenFds + got /\ taken' = taken + 1
      /\ handled' = Append(handled, (takenFds + 1) .. (takenFds + got))
      /\ rx' \in IF got < want THEN {"closed"} ELSE {"dispatching", "closed"}
  BY DEF Dispatch
<1> HIDE DEF got, want
<1> QED BY <1>2, <1>3, <1>4, <1>5, <1>6, <1>7

LEMMA DispatchInv == IInv /\ Dispatch => IInv'
<1> SUFFICES ASSUME IInv, Dispatch PROVE IInv'
  OBVIOUS
<1>1. /\ UNCHANGED txVars /\ UNCHANGED <<rcvd, rcvdFds, gotAny, rxFailed>>
  BY DEF Dispatch
<1>2. /\ \A i : End(i)' = End(i) /\ FdEnd(i)' = FdEnd(i) /\ MarkAt(i)' = MarkAt(i)
      /\ Ordered' /\ Marked' /\ SentBounded' /\ CoveredSent' /\ CoveredPending'
      /\ OutputArmed'
  BY <1>1, SenderFrame
<1>3. /\ taken \in Nat /\ handled \in Seq(SUBSET Nat) /\ queued \in Seq(Message)
      /\ taken <= Len(queued) /\ Len(queued) \in Nat /\ rcvd \in Nat
      /\ MaxBuffered \in Nat /\ RecvChunk \in Nat /\ takenFds \in Nat
      /\ Len(handled) = taken
  BY LimitsAssumption DEF IInv, TypeOK, Received
<1>4. /\ End(taken) \in Nat /\ End(taken + 1) \in Nat /\ End(taken) <= End(taken + 1)
  BY <1>3, EndType, DispatchFacts DEF IInv, Ordered
<1>5. End(taken)' = End(taken + 1) /\ FdEnd(taken)' = FdEnd(taken + 1)
  BY <1>1, DispatchFacts DEF End, FdEnd, txVars
<1>6. (takenFds + 1) .. FdEnd(taken + 1) \in SUBSET Nat
  BY <1>3, DispatchFacts
<1>7. TypeOK'
  <2>1. handled' \in Seq(SUBSET Nat)
    <3>1. handled' = Append(handled, (takenFds + 1) .. FdEnd(taken + 1))
      BY DispatchFacts
    <3> QED BY <3>1, <1>3, <1>6
  <2> QED BY <1>1, <1>3, <2>1, DispatchFacts DEF IInv, TypeOK, txVars
<1>8. Received'
  <2>1. Len(handled') = taken + 1
    BY <1>3, DispatchFacts
  <2>2. MarkAt(rcvd)' = MarkAt(rcvd)
    BY <1>1 DEF MarkAt, txVars
  <2>3. rcvd' = rcvd /\ rcvdFds' = rcvdFds /\ sent' = sent /\ queued' = queued
    BY <1>1 DEF txVars
  <2>4. taken + 1 <= Len(queued)
    BY <1>3, DispatchFacts
  <2> QED BY <1>5, <2>1, <2>2, <2>3, <2>4, DispatchFacts DEF IInv, Received
<1>9. Capped'
  <2>1. Buffered' = rcvd - End(taken + 1) /\ Buffered = rcvd - End(taken)
    BY <1>1, <1>5 DEF Buffered
  <2>2. Buffered' <= Buffered /\ Buffered \in Int /\ Buffered' \in Int
    BY <2>1, <1>3, <1>4
  <2>3. rxFailed' = rxFailed /\ rx' \in {"dispatching", "closed"}
    BY <1>1, DispatchFacts
  <2> QED BY <2>2, <2>3, <1>3 DEF IInv, Capped
<1> QED BY <1>2, <1>7, <1>8, <1>9 DEF IInv

---------------------------------------------------------------------------
LEMMA InvStep == IInv /\ [Next]_vars => IInv'
<1> SUFFICES ASSUME IInv, [Next]_vars PROVE IInv'
  OBVIOUS
<1>1. ASSUME NEW s \in Shapes, SendEvent(s) \/ PostError(s) PROVE IInv'
  <2>1. /\ Enqueue(s) /\ UNCHANGED <<sent, sentFds, mark>> /\ UNCHANGED rxVars
        /\ tx' \in {"idle", "flushing", "closed"} /\ pollout' \in BOOLEAN
        /\ dead' \in BOOLEAN
        /\ tx' = "flushing" \/ pollout'
    BY <1>1 DEF SendEvent, PostError, IInv, TypeOK
  <2>2. /\ queued' \in Seq(Message)
        /\ Ordered' /\ Marked' /\ SentBounded' /\ CoveredSent'
        /\ CoveredPending' /\ Received' /\ Capped'
    BY <2>1, EnqueueInv
  <2>3. TypeOK' /\ OutputArmed'
    BY <2>1, <2>2 DEF IInv, TypeOK, OutputArmed, rxVars
  <2> QED BY <2>2, <2>3 DEF IInv
<1>2. ASSUME UNCHANGED <<queued, sent, sentFds, mark, dead>>, UNCHANGED rxVars,
             tx' \in {"idle", "flushing", "closed"}, pollout' \in BOOLEAN,
             OutputArmed'
      PROVE  IInv'
  <2>1. \A i : End(i)' = End(i) /\ FdEnd(i)' = FdEnd(i) /\ MarkAt(i)' = MarkAt(i)
    BY <1>2 DEF End, FdEnd, MarkAt
  <2>2. Ordered' /\ Marked' /\ SentBounded' /\ CoveredSent' /\ CoveredPending'
    BY <1>2, <2>1 DEF IInv, Ordered, Marked, SentBounded, CoveredSent, CoveredPending,
         End, FdEnd, MarkAt
  <2>3. TypeOK' /\ Received' /\ Capped'
    BY <1>2 DEF IInv, TypeOK, Received, Capped, Buffered, End, FdEnd, MarkAt, rxVars
  <2> QED BY <1>2, <2>2, <2>3 DEF IInv
<1>3. CASE WritableFlush \/ OtherFlush \/ ServerClose
  BY <1>3, <1>2 DEF WritableFlush, OtherFlush, ServerClose, IInv, TypeOK, OutputArmed
<1>4. CASE FlushEnd
  <2>1. /\ UNCHANGED <<queued, sent, sentFds, mark, dead>> /\ UNCHANGED rxVars
        /\ tx' = "idle" /\ pollout' = IF dead THEN pollout ELSE HasOutput
    BY <1>4 DEF FlushEnd, MaskAfterFlush
  <2>2. HasOutput' = HasOutput /\ pollout' \in BOOLEAN
    BY <2>1 DEF HasOutput, QueuedBytes, QueuedFds, End, FdEnd, IInv, TypeOK
  <2> QED BY <2>1, <2>2, <1>2 DEF OutputArmed
<1>5. CASE SendBatch
  BY <1>5, SendBatchInv
<1>6. CASE Receive \/ ReceiveTruncated
  BY <1>6, ReceiveInv
<1>7. CASE PollIn \/ ReceiveNothing \/ DispatchEnd
  <2>1. /\ UNCHANGED txVars /\ UNCHANGED <<rcvd, rcvdFds, taken, takenFds, handled>>
        /\ rx' \in {"idle", "reading", "dispatching", "closed"}
        /\ gotAny' \in BOOLEAN /\ rxFailed' \in BOOLEAN
        /\ rx' \in {"idle", "reading"} => ~rxFailed'
        /\ ~rxFailed' => ~rxFailed
    <3> USE DEF IInv, TypeOK, Capped
    <3>1. CASE PollIn
      BY <3>1 DEF PollIn
    <3>2. CASE ReceiveNothing
      BY <3>2 DEF ReceiveNothing, Leave
    <3>3. CASE DispatchEnd
      BY <3>3 DEF DispatchEnd
    <3> QED BY <1>7, <3>1, <3>2, <3>3
  <2>2. /\ Ordered' /\ Marked' /\ SentBounded' /\ CoveredSent' /\ CoveredPending'
        /\ OutputArmed'
    BY <2>1, SenderFrame
  <2>3. TypeOK' /\ Received' /\ Capped'
    BY <2>1 DEF IInv, TypeOK, Received, Capped, Buffered, End, FdEnd, MarkAt, txVars
  <2> QED BY <2>2, <2>3 DEF IInv
<1>8. CASE Dispatch
  BY <1>8, DispatchInv
<1>9. CASE UNCHANGED vars
  <2>1. OutputArmed'
    BY <1>9 DEF IInv, OutputArmed, HasOutput, QueuedBytes, QueuedFds, End, FdEnd,
         vars, txVars, rxVars
  <2> QED BY <1>9, <2>1, <1>2 DEF IInv, TypeOK, vars, txVars, rxVars
<1> QED
  BY <1>1, <1>3, <1>4, <1>5, <1>6, <1>7, <1>8, <1>9 DEF Next, ServerStep, ClientStep

\* The inductive invariant holds in every reachable state.
THEOREM Invariance == Spec => []IInv
  BY InvInit, InvStep, PTL DEF Spec

---------------------------------------------------------------------------
(* What it gives. *)

\* Every variable of the connection keeps its type.
THEOREM TypeCorrect == Spec => []TypeOK
<1>1. IInv => TypeOK
  BY DEF IInv
<1> QED BY <1>1, Invariance, PTL

\* A message whose bytes were all read by read_available() has its descriptors,
\* whatever the sizes, the batches and the way the kernel splits the bytes.
THEOREM FdsAlwaysComplete == Spec => []FdsComplete
  BY CompleteFds, Invariance, PTL

\* flush() never leaves descriptors without a byte to send them with.
THEOREM NeverStranded == Spec => []NoStrandedFds
<1>1. IInv => NoStrandedFds
  <2> SUFFICES ASSUME IInv, QueuedBytes = 0 PROVE QueuedFds = 0
    BY DEF NoStrandedFds
  <2>1. /\ queued \in Seq(Message) /\ sent \in Nat /\ sentFds \in Nat
        /\ sentFds <= FdEnd(Len(queued)) /\ Len(queued) \in 0 .. Len(queued)
    BY DEF IInv, TypeOK, SentBounded
  <2>2. End(Len(queued)) \in Nat /\ FdEnd(Len(queued)) \in Nat
    BY <2>1, EndType
  <2>3. End(Len(queued)) = sent
    BY <2>1, <2>2 DEF QueuedBytes
  <2>4. FdEnd(Len(queued)) <= MarkAt(sent)
    BY <2>1, <2>2, <2>3 DEF IInv, CoveredSent
  <2> QED BY <2>1, <2>2, <2>4 DEF IInv, Marked, QueuedFds
<1> QED BY <1>1, Invariance, PTL

\* A live client whose Connection holds output waits for EPOLLOUT.
THEOREM OutputAlwaysArmed == Spec => []OutputArmed
<1>1. IInv => OutputArmed
  BY DEF IInv
<1> QED BY <1>1, Invariance, PTL

\* The input buffer never grows past the cap by more than one chunk.
THEOREM InputAlwaysBounded == Spec => []InputBounded
<1>1. IInv => InputBounded
  BY DEF IInv, Capped, InputBounded
<1> QED BY <1>1, Invariance, PTL

---------------------------------------------------------------------------
(* The connection implements the channel. *)

LEMMA AppendEnds ==
  ASSUME queued \in Seq(Message), NEW s \in Shapes, Enqueue(s)
  PROVE  FdEnds' = Append(FdEnds, FdEnd(Len(queued)) + s.fds)
<1> DEFINE n == Len(queued)
<1>1. n \in Nat /\ Len(FdEnds) = n
  BY DEF FdEnds
<1>2. Len(queued') = n + 1 /\ \A i \in 1 .. n : queued'[i].fdEnd = queued[i].fdEnd
  BY DEF Enqueue
<1>3. queued'[n + 1].fdEnd = FdEnd(n) + s.fds
  BY <1>1 DEF Enqueue
<1>4. FdEnds' = [i \in 1 .. n + 1 |-> queued'[i].fdEnd]
  BY <1>2 DEF FdEnds
<1>5. \A i \in 1 .. n : FdEnds[i] = queued[i].fdEnd
  BY DEF FdEnds
<1>6. Append(FdEnds, FdEnd(n) + s.fds)
        = [i \in 1 .. n + 1 |-> IF i = n + 1 THEN FdEnd(n) + s.fds ELSE FdEnds[i]]
  BY <1>1 DEF FdEnds
<1> HIDE DEF n
<1>7. \A i \in 1 .. n + 1 : queued'[i].fdEnd
                            = IF i = n + 1 THEN FdEnd(n) + s.fds ELSE FdEnds[i]
  BY <1>1, <1>2, <1>3, <1>5
<1> QED BY <1>4, <1>6, <1>7 DEF n

\* Each step of the connection is one of the channel or leaves it alone.
THEOREM RefinesChannel == Spec => ImplementsChannel
<1>1. Init => Channel!Init
  BY DEF Init, Channel!Init, FdEnds
<1>2. IInv /\ [Next]_vars => [Channel!Next]_(Channel!channelVars)
  <2> SUFFICES ASSUME IInv, [Next]_vars
               PROVE  Channel!Next \/ UNCHANGED Channel!channelVars
    OBVIOUS
  <2> USE DEF Channel!Next, Channel!channelVars
  <2>1. /\ queued \in Seq(Message) /\ Len(queued) \in Nat /\ taken \in Nat
        /\ taken <= Len(queued) /\ Len(handled) = taken /\ takenFds = FdEnd(taken)
    BY DEF IInv, TypeOK, Received
  <2>2. Len(FdEnds) = Len(queued) /\ \A i \in 1 .. Len(queued) : FdEnds[i] = FdEnd(i)
    BY <2>1 DEF FdEnds, FdEnd
  <2>3. \A i \in 0 .. Len(queued) : Channel!FdsBefore(i + 1) = FdEnd(i)
    BY <2>1, <2>2 DEF Channel!FdsBefore, FdEnd
  <2> DEFINE open == rx # "closed" /\ tx # "closed"
  <2>4. ASSUME NEW s \in Shapes, SendEvent(s) \/ PostError(s) PROVE Channel!Send
    <3>1. Enqueue(s) /\ UNCHANGED handled /\ open' = open
      BY <2>4 DEF SendEvent, PostError, rxVars
    <3>2. FdEnds' = Append(FdEnds, Channel!FdsBefore(Len(FdEnds) + 1) + s.fds)
      <4>1. Len(FdEnds) = Len(queued) /\ Channel!FdsBefore(Len(queued) + 1) = FdEnd(Len(queued))
        BY <2>1, <2>2, <2>3
      <4>2. FdEnds' = Append(FdEnds, FdEnd(Len(queued)) + s.fds)
        BY <2>1, <3>1, AppendEnds
      <4> QED BY <4>1, <4>2
    <3>3. s.fds \in {t.fds : t \in Shapes}
      OBVIOUS
    <3> QED BY <3>1, <3>2, <3>3 DEF Channel!Send
  <2>5. ASSUME Dispatch PROVE Channel!Handle
    <3>1. /\ handled' = Append(handled, (takenFds + 1) .. FdEnd(taken + 1))
          /\ taken + 1 \in 1 .. Len(queued)
      BY <2>5, DispatchFacts
    <3>2. Len(handled) + 1 <= Len(FdEnds) /\ FdEnds[Len(handled) + 1] = FdEnd(taken + 1)
      BY <3>1, <2>1, <2>2
    <3>3. Channel!FdsBefore(Len(handled) + 1) = takenFds
      BY <3>1, <2>1, <2>3
    <3>4. FdEnds' = FdEnds /\ (open' = open \/ open' = FALSE)
      <4>1. queued' = queued /\ tx' = tx /\ rx = "dispatching"
        BY <2>5 DEF Dispatch, txVars
      <4>2. rx' \in {"dispatching", "closed"}
        BY <2>5, DispatchFacts
      <4> QED BY <4>1, <4>2 DEF FdEnds
    <3> HIDE DEF open
    <3>5. open' \in {open, FALSE}
      BY <3>4
    <3> QED BY <3>1, <3>2, <3>3, <3>4, <3>5 DEF Channel!Handle, open
  <2>6. ASSUME UNCHANGED <<queued, handled>>, open' => open
        PROVE  Channel!GiveUp \/ UNCHANGED Channel!channelVars
    <3>1. FdEnds' = FdEnds /\ handled' = handled
      BY <2>6 DEF FdEnds
    <3>2. CASE open /\ ~open'
      BY <3>1, <3>2 DEF Channel!GiveUp
    <3>3. CASE open' = open
      BY <3>1, <3>3
    <3> QED BY <2>6, <3>2, <3>3
  <2>7. CASE WritableFlush \/ OtherFlush \/ SendBatch \/ FlushEnd \/ ServerClose
    <3>1. UNCHANGED <<queued, handled>> /\ (open' => open)
      BY <2>7 DEF WritableFlush, OtherFlush, SendBatch, FlushEnd, ServerClose, rxVars
    <3> QED BY <3>1, <2>6
  <2>8. CASE PollIn \/ Receive \/ ReceiveTruncated \/ ReceiveNothing \/ DispatchEnd
    <3>1. UNCHANGED <<queued, handled>> /\ rx # "closed" /\ tx' = tx
      BY <2>8 DEF PollIn, Receive, ReceiveTruncated, ReceiveNothing, DispatchEnd, txVars
    <3> QED BY <3>1, <2>6
  <2>9. CASE UNCHANGED vars
    BY <2>9, <2>6 DEF vars, txVars, rxVars
  <2> HIDE DEF open
  <2> QED
    BY <2>4, <2>5, <2>6, <2>7, <2>8, <2>9 DEF Next, ServerStep, ClientStep
<1> QED
  BY <1>1, <1>2, Invariance, PTL DEF Spec, ImplementsChannel, Channel!Spec

---------------------------------------------------------------------------
(* The requests to the layout provider. *)

\* Nothing would be asked if the layout was configured now.
Current == ~Y!MustAsk(slots[shown], area, Y!Asked(win, focus, shown, None))

\* The request for the shown tag names every window that takes part, and it
\* names tiled windows that are mapped or not mapped yet.
Named(windows) ==
  /\ Y!Participants(win, shown, TRUE, None) \subseteq DOMAIN windows
  /\ \A w \in DOMAIN windows : ~windows[w].floating /\ windows[w].role \in {"mapped", "new"}

\* What is placed is placed for the request it answers.
Drafted(ss) ==
  \A t \in Tags : /\ DOMAIN ss[t].draft \subseteq DOMAIN ss[t].windows
                  /\ \A w \in DOMAIN ss[t].draft : ss[t].draft[w] = ss[t].serial

LayoutInv ==
  /\ Y!TypeOK /\ Drafted(slots)
  /\ focus # None => win[focus].role = "mapped"
  /\ provider => Named(slots[shown].windows)
  /\ provider /\ ~pending /\ ~silent => Current
  /\ provider /\ serial = MaxSerial => Current

LEMMA PartialFunction ==
  ASSUME NEW S, NEW T
  PROVE  /\ \A f : f \in Y!PartialFunctions(S, T) =>
                    DOMAIN f \subseteq S /\ f \in [DOMAIN f -> T]
         /\ \A D \in SUBSET S : \A f \in [D -> T] : f \in Y!PartialFunctions(S, T)
BY DEF Y!PartialFunctions

LEMMA NothingPartial ==
  ASSUME NEW S, NEW T
  PROVE  Y!Nothing \in Y!PartialFunctions(S, T) /\ DOMAIN Y!Nothing = {}
<1>1. Y!Nothing \in [{} -> T] /\ {} \in SUBSET S
  BY DEF Y!Nothing
<1> QED BY <1>1, PartialFunction DEF Y!Nothing

WinsOK(ws, f, t) == ws \in [Windows -> Y!WindowType] /\ f \in Windows \cup {None} /\ t \in Tags

LEMMA AskedTyped ==
  ASSUME NEW ws, NEW f, NEW t, WinsOK(ws, f, t), NEW w
  PROVE  /\ Y!Asked(ws, f, t, w) \in Y!PartialFunctions(Windows, Y!Saved)
         /\ DOMAIN Y!Asked(ws, f, t, w) = Y!Participants(ws, t, TRUE, w)
         /\ \A v \in Y!Participants(ws, t, TRUE, w) : Y!Asked(ws, f, t, w)[v] = Y!Info(ws, f, v)
<1> DEFINE D == Y!Participants(ws, t, TRUE, w)
<1>1. D \in SUBSET Windows
  BY DEF Y!Participants
<1>2. \A v \in Windows : Y!Info(ws, f, v) \in Y!Saved
  BY DEF WinsOK, Y!Info, Y!Saved, Y!WindowType
<1> HIDE DEF D
<1>3. Y!Asked(ws, f, t, w) = [v \in D |-> Y!Info(ws, f, v)]
  BY DEF D, Y!Asked
<1>4. Y!Asked(ws, f, t, w) \in [D -> Y!Saved]
  BY <1>1, <1>2, <1>3
<1> QED BY <1>1, <1>3, <1>4, PartialFunction DEF D

\* A request as configure_layout() leaves it needs no other.
Answers(slot, a, windows) ==
  slot.serial # 0 /\ ~slot.force /\ slot.area = a /\ slot.windows = windows

LEMMA NewRequestTyped ==
  ASSUME NEW slot \in Y!SlotType, NEW s \in 1 .. MaxSerial, NEW a \in Areas,
         NEW windows \in Y!PartialFunctions(Windows, Y!Saved),
         NEW q, q = Y!NewRequest(slot, s, a, windows)
  PROVE  /\ q \in Y!SlotType /\ Answers(q, a, windows) /\ q.serial = s
         /\ q.accepted = slot.accepted /\ DOMAIN q.draft = {}
<1>1. /\ Y!Nothing \in Y!PartialFunctions(Windows, 1 .. MaxSerial) /\ DOMAIN Y!Nothing = {}
  BY NothingPartial
<1>2. s \in 0 .. MaxSerial /\ s # 0
  BY LayoutAssumption
<1>3. q = [slot EXCEPT !.serial = s, !.area = a, !.windows = windows, !.draft = Y!Nothing,
                       !.error = FALSE, !.committed = FALSE, !.force = FALSE]
  BY DEF Y!NewRequest
<1> QED BY <1>1, <1>2, <1>3 DEF Y!SlotType, Answers

RoundType ==
  [slots : [Tags -> Y!SlotType], serial : 0 .. MaxSerial, told : [Windows -> Y!ToldType],
   armed : BOOLEAN]

LEMMA TellTyped ==
  ASSUME NEW ws, NEW f, NEW t, WinsOK(ws, f, t), NEW external,
         NEW accepted \in Y!PartialFunctions(Windows, 1 .. MaxSerial), NEW w,
         NEW tl \in [Windows -> Y!ToldType]
  PROVE  Y!Tell(ws, f, t, external, accepted, w, tl) \in [Windows -> Y!ToldType]
<1>1. /\ accepted \in [DOMAIN accepted -> 1 .. MaxSerial]
      /\ 1 .. MaxSerial \subseteq Y!Place /\ Y!Own \in Y!Place /\ Y!Nowhere \in Y!Place
  BY PartialFunction, LayoutAssumption DEF Y!Place, Y!Own, Y!Nowhere
<1>2. Y!NotTold \in Y!ToldType
  BY <1>1 DEF Y!NotTold, Y!ToldType
<1>3. \A v \in Windows : Y!TilePlace(v, external, accepted, tl) \in Y!Place
  BY <1>1 DEF Y!TilePlace, Y!ToldType
<1>4. \A v \in Windows, p \in Y!Place, b \in BOOLEAN :
        Y!ToldTiled(p, b) \in Y!ToldType /\ Y!ToldFloating(b) \in Y!ToldType
  BY <1>1 DEF Y!ToldTiled, Y!ToldFloating, Y!ToldType
<1>5. \A v \in Windows : (f = v) \in BOOLEAN
  OBVIOUS
<1> QED BY <1>2, <1>3, <1>4, <1>5 DEF Y!Tell

\* One configure_layout(): it asks when it must, and then the request is as it
\* has to be.
LEMMA RoundKeeps ==
  ASSUME WinsOK(win', focus', shown'), area' \in Areas, provider' \in BOOLEAN,
         NEW c \in RoundType, NEW w, Drafted(c.slots),
         provider' /\ c.serial = MaxSerial =>
           ~Y!MustAsk(c.slots[shown'], area', Y!Asked(win', focus', shown', w)),
         NEW r, r = Y!Round(c, w)
  PROVE  /\ r \in RoundType /\ Drafted(r.slots)
         /\ r.serial \in {c.serial, c.serial + 1}
         /\ \A t \in Tags : r.slots[t].accepted = c.slots[t].accepted
         /\ provider' => Answers(r.slots[shown'], area', Y!Asked(win', focus', shown', w))
         /\ c.armed => r.armed
<1> DEFINE windows == Y!Asked(win', focus', shown', w)
           slot == c.slots[shown']
           ask == provider' /\ Y!MustAsk(slot, area', windows)
           tell == Y!Tell(win', focus', shown', provider', slot.accepted, w, c.told)
           told1 == Y!Announced(win', shown', provider', w, c.told, tell) # {}
           next == IF ask THEN c.serial + 1 ELSE c.serial
           q == Y!NewRequest(slot, next, area', windows)
<1>1. /\ c.slots \in [Tags -> Y!SlotType] /\ c.serial \in 0 .. MaxSerial
      /\ c.told \in [Windows -> Y!ToldType] /\ c.armed \in BOOLEAN
      /\ slot \in Y!SlotType /\ shown' \in Tags
  BY DEF RoundType, WinsOK
<1>2. windows \in Y!PartialFunctions(Windows, Y!Saved)
  BY AskedTyped
<1>3. slot.accepted \in Y!PartialFunctions(Windows, 1 .. MaxSerial)
  BY <1>1 DEF Y!SlotType
<1>4. tell \in [Windows -> Y!ToldType]
  BY <1>1, <1>3, TellTyped
<1>5. r = [slots |-> IF ask THEN [c.slots EXCEPT ![shown'] = q] ELSE c.slots, serial |-> next,
           told |-> tell, armed |-> c.armed \/ (provider' /\ told1)]
  BY DEF Y!Round
<1> HIDE DEF windows, tell, told1, q, slot
<1>6. r.told \in [Windows -> Y!ToldType] /\ r.armed \in BOOLEAN /\ (c.armed => r.armed)
  BY <1>1, <1>4, <1>5
<1>7. CASE ask
  <2>1. next \in 1 .. MaxSerial /\ next = c.serial + 1
    BY <1>1, <1>7, LayoutAssumption DEF slot, windows
  <2>2. /\ q \in Y!SlotType /\ Answers(q, area', windows) /\ q.serial = next
        /\ q.accepted = slot.accepted /\ DOMAIN q.draft = {}
    BY <1>1, <1>2, <2>1, NewRequestTyped DEF q
  <2>3. r.slots = [c.slots EXCEPT ![shown'] = q] /\ r.serial = next
    BY <1>5, <1>7
  <2>4. /\ r.slots \in [Tags -> Y!SlotType]
        /\ \A t \in Tags : r.slots[t] = IF t = shown' THEN q ELSE c.slots[t]
    BY <1>1, <2>2, <2>3
  <2>5. r.serial \in 0 .. MaxSerial
    BY <2>1, <2>3
  <2>6. r \in RoundType
    BY <1>5, <1>6, <2>4, <2>5 DEF RoundType
  <2>7. Drafted(r.slots)
    BY <2>2, <2>4 DEF Drafted
  <2>8. \A t \in Tags : r.slots[t].accepted = c.slots[t].accepted
    BY <2>2, <2>4 DEF slot
  <2> QED BY <1>1, <1>6, <2>1, <2>2, <2>3, <2>4, <2>6, <2>7, <2>8 DEF windows
<1>8. CASE ~ask
  <2>1. r.slots = c.slots /\ r.serial = c.serial
    BY <1>5, <1>8
  <2>2. r \in RoundType
    BY <1>1, <1>5, <1>6, <2>1 DEF RoundType
  <2>3. provider' => Answers(r.slots[shown'], area', windows)
    BY <1>8, <2>1 DEF Y!MustAsk, Answers, slot
  <2> QED BY <1>6, <2>1, <2>2, <2>3 DEF windows
<1> QED BY <1>7, <1>8

\* A request without a candidate names just the windows that take part.
LEMMA AskedNamed ==
  ASSUME NEW ws, NEW f, NEW t, WinsOK(ws, f, t), NEW w,
         w \in Windows => ws[w].floating \/ ws[w].role \in {"mapped", "new"}
  PROVE  /\ Y!Participants(ws, t, TRUE, None) \subseteq DOMAIN Y!Asked(ws, f, t, w)
         /\ \A v \in DOMAIN Y!Asked(ws, f, t, w) :
              /\ ~Y!Asked(ws, f, t, w)[v].floating
              /\ Y!Asked(ws, f, t, w)[v].role \in {"mapped", "new"}
<1>1. \A v \in Windows : v # None
  BY LayoutAssumption
<1>2. /\ DOMAIN Y!Asked(ws, f, t, w) = Y!Participants(ws, t, TRUE, w)
      /\ \A v \in Y!Participants(ws, t, TRUE, w) : Y!Asked(ws, f, t, w)[v] = Y!Info(ws, f, v)
  BY AskedTyped
<1>3. \A v \in Y!Participants(ws, t, TRUE, w) :
        /\ Y!Asked(ws, f, t, w)[v].floating = ws[v].floating
        /\ Y!Asked(ws, f, t, w)[v].role = ws[v].role
  <2>1. \A v : Y!Info(ws, f, v).floating = ws[v].floating /\ Y!Info(ws, f, v).role = ws[v].role
    BY DEF Y!Info
  <2> QED BY <1>2, <2>1
<1>4. Y!Participants(ws, t, TRUE, None) \subseteq Y!Participants(ws, t, TRUE, w)
  BY <1>1 DEF Y!Participants
<1>5. \A v \in Y!Participants(ws, t, TRUE, w) :
        ~ws[v].floating /\ ws[v].role \in {"mapped", "new"}
  BY DEF Y!Participants, Y!Visible
<1> QED BY <1>2, <1>3, <1>4, <1>5

\* A candidate that takes part anyway, or floats, makes no difference.
LEMMA SameAsked ==
  ASSUME NEW ws, NEW f, NEW t, NEW w \in Windows,
         ws[w].floating \/ Y!Visible(ws, t, w) \/ (ws[w].role = "new" /\ ws[w].tag = t)
  PROVE  Y!Asked(ws, f, t, w) = Y!Asked(ws, f, t, None)
<1>1. \A v \in Windows : v # None
  BY LayoutAssumption
<1>2. Y!Participants(ws, t, TRUE, w) = Y!Participants(ws, t, TRUE, None)
  BY <1>1 DEF Y!Participants, Y!Visible
<1> QED BY <1>2 DEF Y!Asked

LEMMA AnswersIsCurrent ==
  ASSUME NEW slot, NEW a, NEW windows, Answers(slot, a, windows)
  PROVE  ~Y!MustAsk(slot, a, windows)
BY DEF Answers, Y!MustAsk

\* The end of a handler, when the last round left a request that names what there is.
LEMMA EndsKeep ==
  ASSUME WinsOK(win', focus', shown'), area' \in Areas, provider' \in BOOLEAN,
         focus' # None => win'[focus'].role = "mapped",
         NEW r \in RoundType, Drafted(r.slots), NEW quietly \in BOOLEAN, Y!Ends(r, quietly),
         NEW w, provider' => Answers(r.slots[shown'], area', Y!Asked(win', focus', shown', w)),
         w \in Windows => win'[w].floating \/ win'[w].role \in {"mapped", "new"},
         \/ Y!Asked(win', focus', shown', w) = Y!Asked(win', focus', shown', None)
         \/ (r.armed \/ quietly) /\ r.serial # MaxSerial
  PROVE  LayoutInv'
<1>1. /\ slots' = r.slots /\ serial' = r.serial /\ told' = r.told /\ pending' = r.armed
      /\ silent' = quietly
  BY DEF Y!Ends
<1>2. Y!TypeOK'
  BY <1>1 DEF Y!TypeOK, RoundType, WinsOK
<1>3. Drafted(slots)'
  BY <1>1 DEF Drafted
<1>4. provider' => Named(slots[shown].windows)'
  <2> SUFFICES ASSUME provider' PROVE Named(slots[shown].windows)'
    OBVIOUS
  <2>1. slots'[shown'].windows = Y!Asked(win', focus', shown', w)
    BY <1>1 DEF Answers
  <2>2. /\ Y!Participants(win', shown', TRUE, None) \subseteq DOMAIN slots'[shown'].windows
        /\ \A v \in DOMAIN slots'[shown'].windows :
             /\ ~slots'[shown'].windows[v].floating
             /\ slots'[shown'].windows[v].role \in {"mapped", "new"}
    BY <2>1, AskedNamed
  <2> QED BY <2>2 DEF Named
<1>5. provider' /\ ((~pending' /\ ~silent') \/ serial' = MaxSerial) => Current'
  <2> SUFFICES ASSUME provider', (~pending' /\ ~silent') \/ serial' = MaxSerial PROVE Current'
    OBVIOUS
  <2>1. Answers(slots'[shown'], area', Y!Asked(win', focus', shown', None))
    BY <1>1
  <2> QED BY <2>1, AnswersIsCurrent DEF Current
<1> QED BY <1>2, <1>3, <1>4, <1>5 DEF LayoutInv

Kept(ss) == \A t \in Tags : slots'[t].accepted = ss[t].accepted

LEMMA StartTyped ==
  ASSUME Y!TypeOK, NEW ss \in [Tags -> Y!SlotType], NEW armed \in BOOLEAN,
         NEW c, c = Y!Start(ss, armed)
  PROVE  c \in RoundType /\ c.slots = ss /\ c.serial = serial /\ c.armed = armed
BY DEF Y!Start, RoundType, Y!TypeOK

LEMMA ConfigureKeeps ==
  ASSUME Y!TypeOK, WinsOK(win', focus', shown'), area' \in Areas, provider' \in BOOLEAN,
         focus' # None => win'[focus'].role = "mapped",
         NEW ss \in [Tags -> Y!SlotType], Drafted(ss), NEW armed \in BOOLEAN, NEW w,
         w \in Windows =>
           \/ win'[w].floating \/ Y!Visible(win', shown', w)
           \/ win'[w].role = "new" /\ win'[w].tag = shown',
         w \in Windows \cup {None},
         provider' /\ serial = MaxSerial =>
           ~Y!MustAsk(ss[shown'], area', Y!Asked(win', focus', shown', w)),
         Y!Configure(ss, w, armed)
  PROVE  LayoutInv' /\ Kept(ss)
<1> DEFINE c == Y!Start(ss, armed)
           r == Y!Round(c, w)
<1>1. c \in RoundType /\ c.slots = ss /\ c.serial = serial /\ c.armed = armed
  BY StartTyped
<1>2. Y!Ends(r, FALSE)
  BY DEF Y!Configure
<1> HIDE DEF c
<1>3. /\ r \in RoundType /\ Drafted(r.slots)
      /\ \A t \in Tags : r.slots[t].accepted = ss[t].accepted
      /\ provider' => Answers(r.slots[shown'], area', Y!Asked(win', focus', shown', w))
  BY <1>1, RoundKeeps
<1> HIDE DEF r
<1>4. Y!Asked(win', focus', shown', w) = Y!Asked(win', focus', shown', None)
  BY SameAsked
<1>5. w \in Windows => win'[w].floating \/ win'[w].role \in {"mapped", "new"}
  BY DEF Y!Visible
<1>6. LayoutInv'
  BY <1>2, <1>3, <1>4, <1>5, EndsKeep
<1>7. Kept(ss)
  BY <1>2, <1>3 DEF Y!Ends, Kept
<1> QED BY <1>6, <1>7

\* A handler that does not configure: it announces, or it is silent.
LEMMA QuietKeeps ==
  ASSUME LayoutInv, Y!Room, UNCHANGED <<shown, area, provider, slots, serial>>,
         WinsOK(win', focus', shown'), focus' # None => win'[focus'].role = "mapped",
         told' \in [Windows -> Y!ToldType], pending' \in BOOLEAN, silent' \in BOOLEAN,
         provider => pending' \/ silent',
         Y!Participants(win', shown, TRUE, None) \subseteq Y!Participants(win, shown, TRUE, None)
  PROVE  LayoutInv' /\ Kept(slots)
<1>1. Y!TypeOK'
  BY DEF LayoutInv, Y!TypeOK, WinsOK
<1>2. Drafted(slots)'
  BY DEF LayoutInv, Drafted
<1>3. provider' => Named(slots[shown].windows)'
  BY DEF LayoutInv, Named
<1>4. serial' # MaxSerial
  BY LayoutAssumption DEF Y!Room, LayoutInv, Y!TypeOK
<1> QED BY <1>1, <1>2, <1>3, <1>4 DEF LayoutInv, Kept

LEMMA LayoutTypes ==
  ASSUME LayoutInv
  PROVE  /\ Y!TypeOK /\ WinsOK(win, focus, shown) /\ area \in Areas /\ provider \in BOOLEAN
         /\ slots \in [Tags -> Y!SlotType] /\ Drafted(slots)
         /\ pending \in BOOLEAN /\ silent \in BOOLEAN /\ told \in [Windows -> Y!ToldType]
         /\ (Y!Room => serial # MaxSerial) /\ (pending \/ Y!Announce) \in BOOLEAN
         /\ \A w \in Windows : w # None /\ win[w] \in Y!WindowType
BY LayoutAssumption DEF LayoutInv, Y!TypeOK, WinsOK, Y!Room, Y!Announce

\* The common form of a handler that configures the layout as it is.
LEMMA ConfigureStep ==
  ASSUME LayoutInv, Y!Room, WinsOK(win', focus', shown'), area' \in Areas, provider' \in BOOLEAN,
         focus' # None => win'[focus'].role = "mapped",
         NEW armed \in BOOLEAN, NEW w \in Windows \cup {None},
         w \in Windows =>
           \/ win'[w].floating \/ Y!Visible(win', shown', w)
           \/ win'[w].role = "new" /\ win'[w].tag = shown',
         Y!Configure(slots, w, armed)
  PROVE  LayoutInv' /\ Kept(slots)
BY LayoutTypes, ConfigureKeeps

LEMMA WindowTypes ==
         /\ \A r \in Y!Role, t \in Tags, b \in BOOLEAN, i \in Infos :
              [role |-> r, tag |-> t, floating |-> b, info |-> i] \in Y!WindowType
         /\ Y!Gone \in Y!WindowType /\ Y!Gone.role = "none" /\ Y!Gone.tag = 1 /\ ~Y!Gone.floating
         /\ Y!NotTold \in Y!ToldType
BY LayoutAssumption DEF Y!WindowType, Y!Role, Y!Gone, Y!NotTold, Y!ToldType, Y!Place, Y!Nowhere

\* One window becomes x.
LEMMA OneWindow ==
  ASSUME LayoutInv, NEW w \in Windows, NEW x \in Y!WindowType, win' = [win EXCEPT ![w] = x]
  PROVE  /\ win' \in [Windows -> Y!WindowType] /\ win'[w] = x
         /\ \A v \in Windows \ {w} : win'[v] = win[v]
BY LayoutTypes DEF WinsOK

LEMMA GetToplevelKeeps ==
  ASSUME LayoutInv, NEW w \in Windows, Y!GetToplevel(w) PROVE LayoutInv' /\ Kept(slots)
<1> DEFINE x == [Y!Gone EXCEPT !.role = "new", !.tag = shown]
<1>1. /\ x \in Y!WindowType /\ x.role = "new" /\ x.tag = shown
  BY LayoutTypes, WindowTypes DEF WinsOK, Y!WindowType, Y!Role
<1>2. win' = [win EXCEPT ![w] = x] /\ UNCHANGED <<focus, shown, area, provider>>
  BY DEF Y!GetToplevel
<1> HIDE DEF x
<1>3. /\ win' \in [Windows -> Y!WindowType] /\ win'[w] = x
      /\ \A v \in Windows \ {w} : win'[v] = win[v]
  BY <1>1, <1>2, OneWindow
<1>4. focus # w
  BY LayoutTypes DEF Y!GetToplevel, LayoutInv
<1>5. focus' # None => win'[focus'].role = "mapped"
  BY <1>2, <1>3, <1>4, LayoutTypes DEF LayoutInv, WinsOK
<1>6. Y!Room /\ Y!Configure(slots, w, pending)
  BY DEF Y!GetToplevel
<1>7. WinsOK(win', focus', shown') /\ area' \in Areas /\ provider' \in BOOLEAN
  BY <1>2, <1>3, LayoutTypes DEF WinsOK
<1> QED BY <1>1, <1>2, <1>3, <1>5, <1>6, <1>7, LayoutTypes, ConfigureStep

\* A commit, the end of a window, or its move to another tag.
LEMMA WindowKeeps ==
  ASSUME LayoutInv, Y!Room, NEW w \in Windows, NEW x \in Y!WindowType,
         win' = [win EXCEPT ![w] = x], UNCHANGED <<shown, area, provider>>,
         \/ focus' = focus /\ (focus = w => x.role = "mapped")
         \/ focus' = w /\ x.role = "mapped"
         \/ Y!MovesOn(w),
         Y!Configure(slots, None, pending \/ Y!Announce)
  PROVE  LayoutInv' /\ Kept(slots)
<1>1. /\ win' \in [Windows -> Y!WindowType] /\ win'[w] = x
      /\ \A v \in Windows \ {w} : win'[v] = win[v]
  BY OneWindow
<1>2. focus' \in Windows \cup {None} /\ (focus' # None => win'[focus'].role = "mapped")
  <2>1. CASE focus' = focus /\ focus # w
    BY <1>1, <2>1, LayoutTypes DEF LayoutInv, WinsOK
  <2>2. CASE focus' = w /\ x.role = "mapped"
    BY <1>1, <2>2
  <2>3. CASE focus' \in {None} \cup {v \in Windows \ {w} : Y!Visible(win', shown, v)}
    BY <2>3 DEF Y!Visible
  <2> QED BY <2>1, <2>2, <2>3 DEF Y!MovesOn
<1>3. WinsOK(win', focus', shown') /\ area' \in Areas /\ provider' \in BOOLEAN
  BY <1>1, <1>2, LayoutTypes DEF WinsOK
<1>4. None \notin Windows
  BY LayoutAssumption
<1> QED BY <1>2, <1>3, <1>4, LayoutTypes, ConfigureStep

\* A window changes without a word to the provider.
LEMMA QuietWindow ==
  ASSUME LayoutInv, Y!Room, NEW w \in Windows, NEW x \in Y!WindowType,
         win' = [win EXCEPT ![w] = x], UNCHANGED <<shown, area, provider, slots, serial>>,
         \/ focus' = focus /\ (focus = w => x.role = "mapped")
         \/ Y!MovesOn(w),
         x.role = "none" \/ x.floating \/ (x.role = win[w].role /\ x.tag = win[w].tag /\ x.floating = win[w].floating),
         told' \in [Windows -> Y!ToldType], pending' \in BOOLEAN, silent' \in BOOLEAN,
         provider => pending' \/ silent'
  PROVE  LayoutInv' /\ Kept(slots)
<1>1. /\ win' \in [Windows -> Y!WindowType] /\ win'[w] = x
      /\ \A v \in Windows \ {w} : win'[v] = win[v]
  BY OneWindow
<1>2. focus' \in Windows \cup {None} /\ (focus' # None => win'[focus'].role = "mapped")
  <2>1. CASE focus' = focus /\ focus # w
    BY <1>1, <2>1, LayoutTypes DEF LayoutInv, WinsOK
  <2>2. CASE focus' = w /\ x.role = "mapped"
    BY <1>1, <2>2
  <2>3. CASE focus' \in {None} \cup {v \in Windows \ {w} : Y!Visible(win', shown, v)}
    BY <2>3 DEF Y!Visible
  <2> QED BY <2>1, <2>2, <2>3 DEF Y!MovesOn
<1>3. WinsOK(win', focus', shown')
  BY <1>1, <1>2, LayoutTypes DEF WinsOK
<1>4. Y!Participants(win', shown, TRUE, None) \subseteq Y!Participants(win, shown, TRUE, None)
  BY <1>1, LayoutTypes DEF Y!Participants, Y!Visible
<1> QED BY <1>2, <1>3, <1>4, QuietKeeps

LEMMA ApplicationKeeps ==
  ASSUME LayoutInv, Y!ApplicationStep PROVE LayoutInv' /\ Kept(slots)
<1>0. PICK w \in Windows :
        \/ Y!GetToplevel(w) \/ Y!CommitUnmap(w) \/ Y!DestroyToplevel(w) \/ Y!Float(w)
        \/ \E b \in BOOLEAN : Y!CommitMap(w, b)
        \/ \E i \in Infos : Y!CommitAgain(w, i) \/ Y!SetTitle(w, i) \/ Y!UnsetModal(w, i)
  BY DEF Y!ApplicationStep
<1>1. CASE Y!GetToplevel(w)
  BY <1>1, GetToplevelKeeps
<1> DEFINE y == win[w]
<1>w. y \in Y!WindowType /\ win \in [Windows -> Y!WindowType] /\ w # None
  BY LayoutTypes DEF WinsOK
<1>2. ASSUME NEW b \in BOOLEAN, Y!CommitMap(w, b) PROVE LayoutInv' /\ Kept(slots)
  <2> DEFINE x == [y EXCEPT !.role = "mapped", !.floating = b]
  <2>1. x \in Y!WindowType /\ x.role = "mapped"
    BY <1>w DEF Y!WindowType, Y!Role
  <2>2. win' = [win EXCEPT ![w] = x]
    BY <1>2, <1>w DEF Y!CommitMap, Y!WindowType
  <2> HIDE DEF x
  <2> QED BY <1>2, <2>1, <2>2, WindowKeeps DEF Y!CommitMap
<1>3. CASE Y!CommitUnmap(w)
  <2> DEFINE x == [y EXCEPT !.role = "unmapped"]
  <2>1. x \in Y!WindowType
    BY <1>w DEF Y!WindowType, Y!Role
  <2>2. win' = [win EXCEPT ![w] = x]
    BY <1>3, <1>w DEF Y!CommitUnmap, Y!WindowType
  <2> HIDE DEF x
  <2> QED BY <1>3, <2>1, <2>2, WindowKeeps DEF Y!CommitUnmap
<1>4. CASE Y!DestroyToplevel(w)
  <2>1. Y!Gone \in Y!WindowType /\ Y!Gone.role = "none" /\ Y!NotTold \in Y!ToldType
    BY WindowTypes
  <2>2. CASE win[w].role = "mapped"
    BY <1>4, <2>1, <2>2, WindowKeeps DEF Y!DestroyToplevel
  <2>3. CASE win[w].role # "mapped"
    <3>1. /\ told' \in [Windows -> Y!ToldType] /\ pending' = (pending \/ Y!Announce)
          /\ UNCHANGED <<slots, serial, silent>>
      BY <1>4, <2>1, <2>3, LayoutTypes DEF Y!DestroyToplevel
    <3>2. provider => pending'
      BY <3>1 DEF Y!Announce
    <3> QED BY <1>4, <2>1, <3>1, <3>2, LayoutTypes, QuietWindow DEF Y!DestroyToplevel
  <2> QED BY <2>2, <2>3
<1>5. ASSUME NEW i \in Infos, NEW x, x = [y EXCEPT !.info = i], win' = [win EXCEPT ![w].info = i]
      PROVE  /\ x \in Y!WindowType /\ win' = [win EXCEPT ![w] = x]
             /\ x.role = y.role /\ x.tag = y.tag /\ x.floating = y.floating
  BY <1>5, <1>w DEF Y!WindowType
<1>6. ASSUME NEW i \in Infos, Y!CommitAgain(w, i) PROVE LayoutInv' /\ Kept(slots)
  <2> DEFINE x == [y EXCEPT !.info = i]
  <2>1. /\ x \in Y!WindowType /\ win' = [win EXCEPT ![w] = x]
        /\ x.role = y.role /\ x.tag = y.tag /\ x.floating = y.floating /\ y.role = "mapped"
    BY <1>5, <1>6 DEF Y!CommitAgain
  <2> HIDE DEF x
  <2>2. CASE i = win[w].info
    <3>1. /\ pending' = (pending \/ Y!Announce) /\ UNCHANGED <<told, slots, serial, silent>>
          /\ UNCHANGED <<focus, shown, area, provider>> /\ Y!Room
      BY <1>6, <2>2 DEF Y!CommitAgain
    <3>2. provider => pending'
      BY <3>1 DEF Y!Announce
    <3> QED BY <2>1, <3>1, <3>2, LayoutTypes, QuietWindow
  <2>3. CASE i # win[w].info
    BY <1>6, <2>1, <2>3, WindowKeeps DEF Y!CommitAgain
  <2> QED BY <2>2, <2>3
<1>7. ASSUME NEW i \in Infos, Y!SetTitle(w, i) \/ Y!UnsetModal(w, i) PROVE LayoutInv' /\ Kept(slots)
  <2> DEFINE x == [y EXCEPT !.info = i]
  <2>1. /\ x \in Y!WindowType /\ win' = [win EXCEPT ![w] = x]
        /\ x.role = y.role /\ x.tag = y.tag /\ x.floating = y.floating
    BY <1>5, <1>7 DEF Y!SetTitle, Y!UnsetModal
  <2> HIDE DEF x
  <2>2. /\ pending' \in BOOLEAN /\ silent' \in BOOLEAN /\ (provider => pending' \/ silent')
        /\ UNCHANGED <<focus, shown, area, told, provider, slots, serial>> /\ Y!Room
    BY <1>7, LayoutTypes DEF Y!SetTitle, Y!UnsetModal, Y!Announce
  <2>3. focus = w => x.role = "mapped"
    BY <1>w, <2>1 DEF LayoutInv
  <2> QED BY <2>1, <2>2, <2>3, LayoutTypes, QuietWindow
<1>8. CASE Y!Float(w)
  <2> DEFINE x == [y EXCEPT !.floating = TRUE]
  <2>1. /\ x \in Y!WindowType /\ x.role = y.role /\ x.tag = y.tag /\ x.floating
        /\ win' = [win EXCEPT ![w] = x]
    BY <1>8, <1>w DEF Y!Float, Y!WindowType
  <2>2. /\ Y!Room /\ UNCHANGED <<focus, shown, area, provider>>
    BY <1>8 DEF Y!Float
  <2>3. focus = w => x.role = "mapped"
    BY <1>w, <2>1 DEF LayoutInv
  <2> HIDE DEF x
  <2>4. CASE win[w].role = "mapped"
    <3>1. /\ win' \in [Windows -> Y!WindowType] /\ win'[w] = x
          /\ \A v \in Windows \ {w} : win'[v] = win[v]
      BY <2>1, OneWindow
    <3>2. focus' # None => win'[focus'].role = "mapped"
      BY <2>2, <2>3, <3>1, LayoutTypes DEF LayoutInv, WinsOK
    <3>3. WinsOK(win', focus', shown') /\ area' \in Areas /\ provider' \in BOOLEAN
      BY <2>2, <3>1, LayoutTypes DEF WinsOK
    <3>4. Y!Configure(slots, w, pending)
      BY <1>8, <2>4 DEF Y!Float
    <3> QED BY <2>1, <2>2, <3>1, <3>2, <3>3, <3>4, LayoutTypes, ConfigureStep
  <2>5. CASE win[w].role # "mapped"
    BY <1>8, <2>1, <2>2, <2>3, <2>5, LayoutTypes, QuietWindow DEF Y!Float
  <2> QED BY <2>4, <2>5
<1> QED BY <1>0, <1>1, <1>2, <1>3, <1>4, <1>6, <1>7, <1>8

LEMMA ToggleFloatingKeeps ==
  ASSUME LayoutInv, NEW w \in Windows, Y!ToggleFloating(w) PROVE LayoutInv' /\ Kept(slots)
<1> DEFINE x == [win[w] EXCEPT !.floating = ~@]
           c == Y!Start(slots, pending)
           r == Y!Round(c, w)
           quietly == ~r.armed /\ ~Y!Visible(win, shown, w)
<1>1. /\ Y!Room /\ focus = w /\ UNCHANGED <<focus, shown, area, provider>> /\ Y!Ends(r, quietly)
  BY DEF Y!ToggleFloating
<1>2. win[w].role = "mapped"
  BY <1>1, LayoutTypes DEF LayoutInv
<1>3. /\ x \in Y!WindowType /\ x.role = "mapped" /\ x.tag = win[w].tag
      /\ win' = [win EXCEPT ![w] = x]
  BY <1>2, LayoutTypes DEF Y!WindowType, Y!ToggleFloating
<1> HIDE DEF x
<1>4. /\ win' \in [Windows -> Y!WindowType] /\ win'[w] = x
      /\ \A v \in Windows \ {w} : win'[v] = win[v]
  BY <1>3, OneWindow
<1>5. WinsOK(win', focus', shown') /\ area' \in Areas /\ provider' \in BOOLEAN
  BY <1>1, <1>4, LayoutTypes DEF WinsOK
<1>6. c \in RoundType /\ c.slots = slots /\ c.serial = serial /\ c.armed = pending
  BY LayoutTypes, StartTyped
<1>7. serial # MaxSerial /\ serial + 1 # MaxSerial /\ Drafted(slots)
  BY <1>1, LayoutTypes, LayoutAssumption DEF Y!Room, Y!TypeOK
<1> HIDE DEF c
<1>8. /\ r \in RoundType /\ Drafted(r.slots) /\ r.serial \in {serial, serial + 1}
      /\ \A t \in Tags : r.slots[t].accepted = slots[t].accepted
      /\ provider' => Answers(r.slots[shown'], area', Y!Asked(win', focus', shown', w))
  BY <1>5, <1>6, <1>7, RoundKeeps
<1> HIDE DEF r
<1>9. r.armed \in BOOLEAN /\ quietly \in BOOLEAN
  BY <1>8 DEF RoundType
<1>10. \/ Y!Asked(win', focus', shown', w) = Y!Asked(win', focus', shown', None)
       \/ (r.armed \/ quietly) /\ r.serial # MaxSerial
  <2>1. CASE Y!Visible(win, shown, w)
    <3>1. Y!Visible(win', shown', w)
      BY <1>1, <1>3, <1>4, <2>1 DEF Y!Visible
    <3> QED BY <3>1, SameAsked
  <2>2. CASE ~Y!Visible(win, shown, w)
    BY <1>7, <1>8, <2>2
  <2> QED BY <2>1, <2>2
<1>11. focus' # None => win'[focus'].role = "mapped"
  BY <1>1, <1>3, <1>4
<1>12. LayoutInv'
  <2> HIDE DEF quietly
  <2> QED BY <1>1, <1>3, <1>4, <1>5, <1>8, <1>9, <1>10, <1>11, EndsKeep
<1> QED BY <1>1, <1>8, <1>12 DEF Kept, Y!Ends

LEMMA ControlFloatingKeeps ==
  ASSUME LayoutInv, NEW w \in Windows, NEW b \in BOOLEAN, Y!ControlFloating(w, b)
  PROVE  LayoutInv' /\ Kept(slots)
<1> DEFINE x == [win[w] EXCEPT !.floating = b]
           c == Y!Start(slots, pending \/ Y!Announce)
           r == Y!Round(c, w)
           q == Y!Round(r, None)
<1>1. /\ Y!Room /\ UNCHANGED <<focus, shown, area, provider>> /\ q.serial <= MaxSerial
      /\ Y!Ends(q, FALSE)
  BY DEF Y!ControlFloating
<1>2. /\ x \in Y!WindowType /\ x.role = win[w].role /\ win' = [win EXCEPT ![w] = x]
  BY LayoutTypes DEF Y!WindowType, Y!ControlFloating
<1> HIDE DEF x
<1>3. /\ win' \in [Windows -> Y!WindowType] /\ win'[w] = x
      /\ \A v \in Windows \ {w} : win'[v] = win[v]
  BY <1>2, OneWindow
<1>4. WinsOK(win', focus', shown') /\ area' \in Areas /\ provider' \in BOOLEAN
  BY <1>1, <1>3, LayoutTypes DEF WinsOK
<1>5. c \in RoundType /\ c.slots = slots /\ c.serial = serial
  BY LayoutTypes, StartTyped
<1>6. serial # MaxSerial /\ serial + 1 # MaxSerial /\ Drafted(slots)
  BY <1>1, LayoutTypes, LayoutAssumption DEF Y!Room, Y!TypeOK
<1> HIDE DEF c
<1>7. /\ r \in RoundType /\ Drafted(r.slots) /\ r.serial \in {serial, serial + 1}
      /\ \A t \in Tags : r.slots[t].accepted = slots[t].accepted
  BY <1>4, <1>5, <1>6, RoundKeeps
<1> HIDE DEF r
<1>8. r.serial # MaxSerial
  BY <1>6, <1>7
<1>9. /\ q \in RoundType /\ Drafted(q.slots)
      /\ \A t \in Tags : q.slots[t].accepted = r.slots[t].accepted
      /\ provider' => Answers(q.slots[shown'], area', Y!Asked(win', focus', shown', None))
  BY <1>4, <1>7, <1>8, RoundKeeps
<1> HIDE DEF q
<1>10. focus' # None => win'[focus'].role = "mapped"
  BY <1>1, <1>2, <1>3, LayoutTypes DEF LayoutInv, WinsOK
<1>11. LayoutInv'
  BY <1>1, <1>4, <1>9, <1>10, LayoutAssumption, EndsKeep
<1> QED BY <1>1, <1>7, <1>9, <1>11 DEF Kept, Y!Ends

LEMMA UserKeeps ==
  ASSUME LayoutInv, Y!UserStep PROVE LayoutInv' /\ Kept(slots)
<1>0. None \notin Windows
  BY LayoutAssumption
<1>1. ASSUME NEW w \in Windows, Y!FocusWindow(w) PROVE LayoutInv' /\ Kept(slots)
  <2>1. WinsOK(win', focus', shown') /\ area' \in Areas /\ provider' \in BOOLEAN
    BY <1>1, LayoutTypes DEF WinsOK, Y!FocusWindow
  <2>2. win'[focus'].role = "mapped" /\ Y!Room /\ Y!Configure(slots, None, pending)
    BY <1>1 DEF Y!FocusWindow, Y!Visible
  <2> QED BY <1>0, <2>1, <2>2, LayoutTypes, ConfigureStep
<1>2. ASSUME NEW w \in Windows, Y!TiledResize(w) PROVE LayoutInv' /\ Kept(slots)
  <2>1. WinsOK(win', focus', shown')
    BY <1>2, LayoutTypes DEF WinsOK, Y!TiledResize
  <2>2. win'[focus'].role = "mapped" /\ Y!Room /\ silent' = TRUE
    BY <1>2 DEF Y!TiledResize, Y!Visible
  <2>3. UNCHANGED <<win, shown, area, told, provider, slots, serial, pending>>
    BY <1>2 DEF Y!TiledResize
  <2> QED BY <2>1, <2>2, <2>3, LayoutTypes, QuietKeeps
<1>3. ASSUME NEW w \in Windows, NEW t \in Tags, Y!AssignWindow(w, t) PROVE LayoutInv' /\ Kept(slots)
  <2> DEFINE x == [win[w] EXCEPT !.tag = t]
  <2>1. x \in Y!WindowType /\ win' = [win EXCEPT ![w] = x] /\ x.role = win[w].role
    BY <1>3, LayoutTypes DEF Y!WindowType, Y!AssignWindow
  <2> HIDE DEF x
  <2>2. focus = w => x.role = "mapped"
    BY <1>0, <2>1 DEF LayoutInv
  <2> QED BY <1>3, <2>1, <2>2, WindowKeeps DEF Y!AssignWindow
<1>4. ASSUME NEW t \in Tags, Y!SelectTag(t) PROVE LayoutInv' /\ Kept(slots)
  <2>1. /\ WinsOK(win', focus', shown') /\ area' \in Areas /\ provider' \in BOOLEAN
        /\ focus' # None => win'[focus'].role = "mapped"
    BY <1>4, LayoutTypes DEF WinsOK, Y!SelectTag, Y!Visible
  <2> QED BY <1>0, <1>4, <2>1, LayoutTypes, ConfigureStep DEF Y!SelectTag
<1>5. ASSUME NEW a \in Areas, Y!LayerCommit(a) PROVE LayoutInv' /\ Kept(slots)
  <2>1. /\ WinsOK(win', focus', shown') /\ area' \in Areas /\ provider' \in BOOLEAN
        /\ focus' # None => win'[focus'].role = "mapped"
    BY <1>5, LayoutTypes DEF WinsOK, Y!LayerCommit, LayoutInv
  <2> QED BY <1>0, <1>5, <2>1, LayoutTypes, ConfigureStep DEF Y!LayerCommit
<1> QED BY <1>1, <1>2, <1>3, <1>4, <1>5, ToggleFloatingKeeps, ControlFloatingKeeps DEF Y!UserStep

\* A request that is found names exactly what there is.
LEMMA FoundIsWhole ==
  ASSUME LayoutInv, NEW t \in Tags, Y!Found(t)
  PROVE  t = shown /\ slots[t].windows = Y!Asked(win, focus, t, None)
<1> DEFINE windows == slots[t].windows
           P == Y!Participants(win, t, TRUE, None)
<1>1. /\ provider /\ t = shown
      /\ \A w \in DOMAIN windows :
           win[w].role # "none" /\ win[w].tag = t /\ Y!Info(win, focus, w) = windows[w]
  BY DEF Y!Found
<1>2. /\ P \subseteq DOMAIN windows
      /\ \A w \in DOMAIN windows : ~windows[w].floating /\ windows[w].role \in {"mapped", "new"}
  BY <1>1 DEF LayoutInv, Named
<1>3. windows \in Y!PartialFunctions(Windows, Y!Saved)
  BY LayoutTypes DEF Y!SlotType
<1>4. DOMAIN windows \subseteq Windows /\ windows = [w \in DOMAIN windows |-> windows[w]]
  BY <1>3, PartialFunction
<1>5. \A w : /\ Y!Info(win, focus, w).role = win[w].role
             /\ Y!Info(win, focus, w).floating = win[w].floating
  BY DEF Y!Info
<1>6. DOMAIN windows \subseteq P
  BY <1>1, <1>2, <1>4, <1>5 DEF Y!Participants, Y!Visible
<1> HIDE DEF windows, P
<1>7. windows = [w \in P |-> Y!Info(win, focus, w)]
  BY <1>1, <1>2, <1>4, <1>6
<1> QED BY <1>1, <1>7 DEF windows, P, Y!Asked

\* What a complete batch places.
LEMMA CompleteIsWhole ==
  ASSUME LayoutInv, NEW t \in Tags, Y!Complete(slots[t])
  PROVE  slots[t].draft = [w \in DOMAIN slots[t].windows |-> slots[t].serial]
<1>0. Cardinality(DOMAIN slots[t].draft) = Cardinality(DOMAIN slots[t].windows)
  BY DEF Y!Complete, Y!Cardinality, Cardinality
<1> DEFINE draft == slots[t].draft
           windows == slots[t].windows
<1>1. /\ windows \in Y!PartialFunctions(Windows, Y!Saved)
      /\ draft \in Y!PartialFunctions(Windows, 1 .. MaxSerial)
  BY LayoutTypes DEF Y!SlotType
<1>2. DOMAIN windows \subseteq Windows /\ draft = [w \in DOMAIN draft |-> draft[w]]
  BY <1>1, PartialFunction
<1>3. DOMAIN draft \in SUBSET DOMAIN windows /\ \A w \in DOMAIN draft : draft[w] = slots[t].serial
  BY DEF LayoutInv, Drafted
<1>4. Cardinality(DOMAIN draft) = Cardinality(DOMAIN windows)
  BY <1>0
<1> HIDE DEF draft, windows
<1>5. IsFiniteSet(DOMAIN windows)
  BY <1>2, LayoutAssumption, FS_Subset
<1>6. DOMAIN draft = DOMAIN windows
  BY <1>3, <1>4, <1>5, FS_Subset
<1> QED BY <1>2, <1>3, <1>6 DEF draft, windows

Accepted(t) ==
  slots'[t].accepted # slots[t].accepted /\ provider' =>
    /\ t = shown
    /\ slots[t].windows = Y!Asked(win, focus, t, None)
    /\ slots'[t].accepted = [w \in DOMAIN slots[t].windows |-> slots[t].serial]

LEMMA DestroyProviderKeeps ==
  ASSUME LayoutInv, Y!DestroyProvider PROVE LayoutInv'
<1>1. /\ WinsOK(win', focus', shown') /\ area' \in Areas /\ provider' = FALSE
      /\ focus' # None => win'[focus'].role = "mapped"
  BY LayoutTypes DEF WinsOK, Y!DestroyProvider, LayoutInv
<1>2. /\ Y!Nothing \in Y!PartialFunctions(Windows, 1 .. MaxSerial) /\ DOMAIN Y!Nothing = {}
      /\ Y!Nothing \in Y!PartialFunctions(Windows, Y!Saved)
  BY NothingPartial
<1>3. Y!NoSlot(area) \in Y!SlotType /\ DOMAIN Y!NoSlot(area).draft = {}
  BY <1>2, LayoutTypes, LayoutAssumption DEF Y!NoSlot, Y!SlotType
<1>4. Y!NoSlots \in [Tags -> Y!SlotType] /\ Drafted(Y!NoSlots)
  BY <1>3 DEF Y!NoSlots, Drafted
<1>5. Y!Configure(Y!NoSlots, None, pending) /\ None \notin Windows
  BY LayoutAssumption DEF Y!DestroyProvider
<1> QED BY <1>1, <1>4, <1>5, LayoutTypes, ConfigureKeeps

LEMMA RequestLayoutKeeps ==
  ASSUME LayoutInv, Y!RequestLayout PROVE LayoutInv' /\ Kept(slots)
<1> DEFINE ss == [t \in Tags |-> [slots[t] EXCEPT !.force = @ \/ slots[t].serial # 0]]
<1>1. /\ WinsOK(win', focus', shown') /\ area' \in Areas /\ provider' \in BOOLEAN
      /\ focus' # None => win'[focus'].role = "mapped"
  BY LayoutTypes DEF WinsOK, Y!RequestLayout, LayoutInv
<1>2. ASSUME NEW t \in Tags
      PROVE  /\ ss[t] \in Y!SlotType /\ ss[t].windows = slots[t].windows
             /\ ss[t].draft = slots[t].draft /\ ss[t].serial = slots[t].serial
             /\ ss[t].accepted = slots[t].accepted
  BY LayoutTypes DEF Y!SlotType
<1>3. Y!Configure(ss, None, pending) /\ None \notin Windows /\ serial # MaxSerial
  BY LayoutTypes, LayoutAssumption DEF Y!RequestLayout
<1> HIDE DEF ss
<1>4. ss \in [Tags -> Y!SlotType] /\ Drafted(ss)
  <2>1. ss = [t \in Tags |-> ss[t]]
    BY DEF ss
  <2> QED BY <1>2, <2>1, LayoutTypes DEF Drafted
<1>5. LayoutInv' /\ Kept(ss)
  BY <1>1, <1>3, <1>4, LayoutTypes, ConfigureKeeps
<1> QED BY <1>2, <1>5 DEF Kept

LEMMA PlaceWindowKeeps ==
  ASSUME LayoutInv, NEW t \in Tags, NEW w \in Windows, NEW valid \in BOOLEAN,
         Y!PlaceWindow(t, w, valid)
  PROVE  LayoutInv' /\ Kept(slots)
<1> DEFINE slot == slots[t]
           draft == [v \in DOMAIN slot.draft \cup {w} |-> IF v = w THEN slot.serial ELSE slot.draft[v]]
           placed == [slot EXCEPT !.draft = draft]
           failed == [slot EXCEPT !.error = TRUE]
<1>1. /\ slot \in Y!SlotType /\ slots \in [Tags -> Y!SlotType] /\ slot.serial # 0
      /\ slot.serial \in 0 .. MaxSerial
      /\ UNCHANGED <<win, focus, shown, area, told, provider, serial, pending, silent>>
  BY LayoutTypes DEF Y!PlaceWindow, Y!Found, Y!SlotType
<1>2. ASSUME w \in DOMAIN slot.windows
      PROVE  /\ placed \in Y!SlotType /\ DOMAIN placed.draft \subseteq DOMAIN placed.windows
             /\ \A v \in DOMAIN placed.draft : placed.draft[v] = placed.serial
  <2>1. /\ slot.draft \in Y!PartialFunctions(Windows, 1 .. MaxSerial)
        /\ slot.serial \in 1 .. MaxSerial
    BY <1>1, LayoutAssumption DEF Y!SlotType
  <2>2. DOMAIN slot.draft \subseteq Windows /\ slot.draft \in [DOMAIN slot.draft -> 1 .. MaxSerial]
    BY <2>1, PartialFunction
  <2>3. /\ DOMAIN slot.draft \subseteq DOMAIN slot.windows
        /\ \A v \in DOMAIN slot.draft : slot.draft[v] = slot.serial
    BY DEF LayoutInv, Drafted
  <2>4. draft \in [DOMAIN slot.draft \cup {w} -> 1 .. MaxSerial]
    BY <2>1, <2>2
  <2>5. draft \in Y!PartialFunctions(Windows, 1 .. MaxSerial)
    <3> DEFINE D == DOMAIN slot.draft \cup {w}
    <3>1. D \in SUBSET Windows /\ draft \in [D -> 1 .. MaxSerial]
      BY <2>2, <2>4
    <3> HIDE DEF D, draft
    <3> QED BY <3>1, PartialFunction
  <2>6. DOMAIN draft \subseteq DOMAIN slot.windows /\ \A v \in DOMAIN draft : draft[v] = slot.serial
    BY <1>2, <2>3
  <2> HIDE DEF draft, slot
  <2>7. /\ placed \in Y!SlotType /\ placed.draft = draft /\ placed.windows = slot.windows
        /\ placed.serial = slot.serial
    BY <1>1, <2>5 DEF Y!SlotType
  <2> QED BY <2>6, <2>7
<1>3. failed \in Y!SlotType /\ failed.draft = slot.draft /\ failed.windows = slot.windows
      /\ failed.serial = slot.serial
  BY <1>1 DEF Y!SlotType
<1>4. PICK q \in {placed, failed} :
        slots' = [slots EXCEPT ![t] = q] /\ (q = placed => w \in DOMAIN slot.windows \/ q = failed)
  BY <1>1 DEF Y!PlaceWindow
<1>5. /\ q.serial = slot.serial /\ q.area = slot.area /\ q.windows = slot.windows
      /\ q.accepted = slot.accepted /\ q.force = slot.force
  BY <1>1 DEF Y!SlotType
<1>6. /\ q \in Y!SlotType /\ DOMAIN q.draft \subseteq DOMAIN q.windows
      /\ \A v \in DOMAIN q.draft : q.draft[v] = q.serial
  <2>1. CASE q = failed
    BY <1>3, <2>1 DEF LayoutInv, Drafted
  <2>2. CASE q = placed /\ w \in DOMAIN slot.windows
    <3> HIDE DEF placed, slot
    <3> QED BY <1>2, <2>2
  <2> QED BY <1>4, <2>1, <2>2
<1> HIDE DEF placed, failed
<1>7. /\ slots' \in [Tags -> Y!SlotType]
      /\ \A u \in Tags : slots'[u] = IF u = t THEN q ELSE slots[u]
  BY <1>1, <1>4, <1>6
<1>8. Y!TypeOK'
  BY <1>1, <1>7 DEF LayoutInv, Y!TypeOK
<1>9. Drafted(slots)'
  BY <1>6, <1>7 DEF LayoutInv, Drafted
<1>10. \A u \in Tags : /\ slots'[u].serial = slots[u].serial /\ slots'[u].area = slots[u].area
                       /\ slots'[u].windows = slots[u].windows
                       /\ slots'[u].accepted = slots[u].accepted
                       /\ slots'[u].force = slots[u].force
  BY <1>5, <1>7
<1>11. Kept(slots)
  BY <1>10 DEF Kept
<1>12. shown \in Tags
  BY LayoutTypes DEF WinsOK
<1>13. (Current => Current') /\ (Named(slots[shown].windows) => Named(slots[shown].windows)')
  BY <1>1, <1>10, <1>12 DEF Current, Y!MustAsk, Named
<1>14. LayoutInv'
  BY <1>1, <1>8, <1>9, <1>13 DEF LayoutInv
<1> QED BY <1>11, <1>14

LEMMA CommitKeeps ==
  ASSUME LayoutInv, NEW t \in Tags, Y!Commit(t)
  PROVE  LayoutInv' /\ \A u \in Tags : Accepted(u)
<1> DEFINE q == [slots[t] EXCEPT !.accepted = slots[t].draft, !.committed = TRUE]
           ss == [slots EXCEPT ![t] = q]
<1>1. /\ WinsOK(win', focus', shown') /\ area' \in Areas /\ provider' \in BOOLEAN
      /\ focus' # None => win'[focus'].role = "mapped"
  BY LayoutTypes DEF WinsOK, Y!Commit, LayoutInv
<1>2. /\ slots \in [Tags -> Y!SlotType] /\ slots[t] \in Y!SlotType /\ Drafted(slots)
      /\ UNCHANGED <<win, focus, shown, area, provider>>
  BY LayoutTypes DEF Y!Commit
<1>3. /\ q \in Y!SlotType /\ q.draft = slots[t].draft /\ q.windows = slots[t].windows
      /\ q.serial = slots[t].serial /\ q.accepted = slots[t].draft
      /\ q.area = slots[t].area /\ q.force = slots[t].force
  BY <1>2 DEF Y!SlotType
<1>4. Y!Configure(ss, None, pending) /\ None \notin Windows
  BY <1>2, LayoutAssumption DEF Y!Commit
<1> HIDE DEF q
<1>5. ss \in [Tags -> Y!SlotType] /\ \A u \in Tags : ss[u] = IF u = t THEN q ELSE slots[u]
  BY <1>2, <1>3
<1> HIDE DEF ss
<1>6. Drafted(ss)
  BY <1>2, <1>3, <1>5 DEF Drafted
<1>7. provider' /\ serial = MaxSerial =>
        ~Y!MustAsk(ss[shown'], area', Y!Asked(win', focus', shown', None))
  <2>1. shown \in Tags
    BY LayoutTypes DEF WinsOK
  <2> QED BY <1>2, <1>3, <1>5, <2>1 DEF LayoutInv, Current, Y!MustAsk
<1>8. LayoutInv' /\ Kept(ss)
  BY <1>1, <1>4, <1>5, <1>6, <1>7, LayoutTypes, ConfigureKeeps
<1>9. /\ t = shown /\ slots[t].windows = Y!Asked(win, focus, t, None)
      /\ slots[t].draft = [w \in DOMAIN slots[t].windows |-> slots[t].serial]
  BY FoundIsWhole, CompleteIsWhole DEF Y!Commit
<1> QED BY <1>3, <1>5, <1>8, <1>9 DEF Kept, Accepted

LEMMA RelayoutKeeps ==
  ASSUME LayoutInv, Y!Relayout PROVE LayoutInv' /\ Kept(slots)
<1>1. UNCHANGED <<win, focus, shown, area, provider>>
  BY DEF Y!Relayout
<1>2. /\ WinsOK(win', focus', shown') /\ area' \in Areas /\ provider' \in BOOLEAN
      /\ focus' # None => win'[focus'].role = "mapped"
  BY <1>1, LayoutTypes DEF WinsOK, LayoutInv
<1>3. CASE provider
  <2>1. Y!Configure(slots, None, FALSE) /\ None \notin Windows
    BY <1>3, LayoutAssumption DEF Y!Relayout
  <2>2. provider' /\ serial = MaxSerial =>
          ~Y!MustAsk(slots[shown'], area', Y!Asked(win', focus', shown', None))
    BY <1>1 DEF LayoutInv, Current
  <2> QED BY <1>2, <2>1, <2>2, LayoutTypes, ConfigureKeeps
<1>4. CASE ~provider
  <2>1. pending' = FALSE /\ UNCHANGED <<told, slots, serial, silent>>
    BY <1>4 DEF Y!Relayout
  <2>2. Y!TypeOK' /\ Drafted(slots)'
    BY <1>1, <2>1 DEF LayoutInv, Y!TypeOK, Drafted
  <2> QED BY <1>1, <1>2, <1>4, <2>1, <2>2 DEF LayoutInv, Kept
<1> QED BY <1>3, <1>4

LEMMA LayoutStep ==
  ASSUME LayoutInv, Y!Next PROVE LayoutInv' /\ \A t \in Tags : Accepted(t)
<1>1. ASSUME Kept(slots) PROVE \A t \in Tags : Accepted(t)
  BY <1>1 DEF Kept, Accepted
<1>2. CASE Y!CreateProvider
  <2>1. /\ WinsOK(win', focus', shown') /\ area' \in Areas /\ provider' \in BOOLEAN
        /\ focus' # None => win'[focus'].role = "mapped"
    BY <1>2, LayoutTypes DEF WinsOK, Y!CreateProvider, LayoutInv
  <2>2. None \notin Windows
    BY LayoutAssumption
  <2>3. LayoutInv' /\ Kept(slots)
    BY <1>2, <2>1, <2>2, LayoutTypes, ConfigureStep DEF Y!CreateProvider
  <2> QED BY <1>1, <2>3
<1>3. CASE Y!DestroyProvider
  <2>1. ~provider'
    BY <1>3 DEF Y!DestroyProvider
  <2> QED BY <1>3, <2>1, DestroyProviderKeeps DEF Accepted
<1>4. ASSUME NEW t \in Tags, NEW w \in Windows, NEW b \in BOOLEAN, Y!PlaceWindow(t, w, b)
      PROVE  LayoutInv' /\ Kept(slots)
  BY <1>4, PlaceWindowKeeps
<1> QED BY <1>1, <1>2, <1>3, <1>4, ApplicationKeeps, UserKeeps, RequestLayoutKeeps, CommitKeeps,
           RelayoutKeeps DEF Y!Next, Y!ProviderStep

LEMMA LayoutInitially == Y!Init => LayoutInv
<1> SUFFICES ASSUME Y!Init PROVE LayoutInv
  OBVIOUS
<1>1. /\ Y!Gone \in Y!WindowType /\ Y!NotTold \in Y!ToldType
  BY WindowTypes
<1>2. [Y!Gone EXCEPT !.role = "mapped"] \in Y!WindowType
  BY <1>1 DEF Y!WindowType, Y!Role
<1>3. Y!ToldTiled(Y!Own, FALSE) \in Y!ToldType
  BY LayoutAssumption DEF Y!ToldTiled, Y!Own, Y!ToldType, Y!Place, Y!Nowhere
<1>4. /\ Y!Nothing \in Y!PartialFunctions(Windows, 1 .. MaxSerial) /\ DOMAIN Y!Nothing = {}
      /\ Y!Nothing \in Y!PartialFunctions(Windows, Y!Saved)
  BY NothingPartial
<1>5. area = 1 /\ focus = None /\ ~provider /\ shown = 1 /\ serial = 0 /\ slots = Y!NoSlots
  BY DEF Y!Init
<1>6. Y!NoSlot(area) \in Y!SlotType /\ DOMAIN Y!NoSlot(area).draft = {}
  BY <1>4, <1>5, LayoutAssumption DEF Y!NoSlot, Y!SlotType
<1>7. slots \in [Tags -> Y!SlotType] /\ Drafted(slots)
  BY <1>5, <1>6 DEF Y!NoSlots, Drafted
<1>8. win \in [Windows -> Y!WindowType] /\ told \in [Windows -> Y!ToldType]
  BY <1>1, <1>2, <1>3 DEF Y!Init
<1>9. Y!TypeOK
  <2>1. pending = FALSE /\ silent = FALSE /\ provider = FALSE
    BY DEF Y!Init
  <2>2. 0 \in 0 .. MaxSerial
    BY LayoutAssumption
  <2> QED BY <1>5, <1>7, <1>8, <2>1, <2>2, LayoutAssumption DEF Y!TypeOK
<1> QED BY <1>5, <1>7, <1>9 DEF LayoutInv

\* At rest the newest request names what there is, so it is found.
LEMMA CurrentIsFound ==
  ASSUME LayoutInv PROVE Y!NewestIsCurrent
<1> SUFFICES ASSUME provider, ~pending, ~silent
             PROVE  /\ slots[shown].serial # 0 /\ slots[shown].area = area
                    /\ slots[shown].windows = Y!Asked(win, focus, shown, None)
                    /\ Y!Found(shown)
  BY DEF Y!NewestIsCurrent
<1>1. /\ slots[shown].serial # 0 /\ slots[shown].area = area
      /\ slots[shown].windows = Y!Asked(win, focus, shown, None)
  BY DEF LayoutInv, Current, Y!MustAsk
<1>2. WinsOK(win, focus, shown) /\ None \notin Windows
  BY LayoutTypes, LayoutAssumption
<1>3. /\ DOMAIN slots[shown].windows = Y!Participants(win, shown, TRUE, None)
      /\ \A v \in DOMAIN slots[shown].windows : slots[shown].windows[v] = Y!Info(win, focus, v)
  <2>1. /\ DOMAIN Y!Asked(win, focus, shown, None) = Y!Participants(win, shown, TRUE, None)
        /\ \A v \in Y!Participants(win, shown, TRUE, None) :
             Y!Asked(win, focus, shown, None)[v] = Y!Info(win, focus, v)
    BY <1>2, AskedTyped
  <2> QED BY <1>1, <2>1
<1>4. \A v \in Y!Participants(win, shown, TRUE, None) :
        win[v].role # "none" /\ win[v].tag = shown
  BY <1>2 DEF Y!Participants, Y!Visible
<1> QED BY <1>1, <1>3, <1>4 DEF Y!Found

\* At rest the provider's newest request says what there is and can be
\* answered, and a batch that is accepted is for it and places every window of
\* it, whatever applications, the user and the provider do in between.
THEOREM LayoutsAreCurrent == MCSpec => LayoutsCurrent
<1>1. MCInit => LayoutInv
  BY LayoutInitially DEF MCInit
<1>2. LayoutInv /\ [MCNext]_allVars => LayoutInv'
  <2> SUFFICES ASSUME LayoutInv, [MCNext]_allVars PROVE LayoutInv'
    OBVIOUS
  <2>1. CASE Y!Next
    BY <2>1, LayoutStep
  <2>2. CASE UNCHANGED layoutVars
    BY <2>2 DEF layoutVars, LayoutInv, Y!TypeOK, Drafted, Named, Current
  <2> QED BY <2>1, <2>2 DEF MCNext, OthersOfWire, allVars
<1>3. LayoutInv => Y!TypeOK /\ Y!NewestIsCurrent
  BY CurrentIsFound DEF LayoutInv
<1>4. LayoutInv /\ [MCNext]_allVars => [\A t \in Tags : Accepted(t)]_layoutVars
  <2> SUFFICES ASSUME LayoutInv, [MCNext]_allVars, layoutVars' # layoutVars
               PROVE  \A t \in Tags : Accepted(t)
    OBVIOUS
  <2>1. Y!Next
    BY DEF MCNext, OthersOfWire, allVars
  <2> QED BY <2>1, LayoutStep
<1>5. [\A t \in Tags : Accepted(t)]_layoutVars <=>
        [\A t \in Tags :
           slots'[t].accepted # slots[t].accepted /\ provider' =>
             /\ t = shown
             /\ slots[t].windows = Y!Asked(win, focus, t, None)
             /\ slots'[t].accepted = [w \in DOMAIN slots[t].windows |-> slots[t].serial]]_(Y!vars)
  BY DEF Accepted, layoutVars, Y!vars
<1>6. MCSpec => []LayoutInv
  BY <1>1, <1>2, PTL DEF MCSpec
<1>7. MCSpec => [](Y!TypeOK /\ Y!NewestIsCurrent)
  BY <1>3, <1>6, PTL
<1>8. MCSpec => Y!AcceptedIsWhole
  BY <1>4, <1>5, <1>6, PTL DEF MCSpec, Y!AcceptedIsWhole
<1> QED BY <1>7, <1>8, PTL DEF LayoutsCurrent
=============================================================================
