---------------------------- MODULE Partners_proof ----------------------------
(***************************************************************************)
(* The portal keeps its word, whichever of its threads and processes is    *)
(* first; no manager rests on an old state; and no two sessions have the   *)
(* same X display.  Each part of PartnersMC has an inductive invariant:    *)
(* StreamInv, CaptureInv, PortalInv, DisplayInv, ManagersInv.              *)
(***************************************************************************)
EXTENDS PartnersMC, FiniteSetTheorems, SequenceTheorems, TLAPS
-----------------------------------------------------------------------------
(* The video stream of the portal. *)

stream == v1
pool == v2
memory == v3
posted == v4
strVars == <<v1, v2, v3, v4>>

Call == {"ready", "frameNeeded", "failed"}
\* Before the stream has a node, what was posted can only say that it failed; and
\* nothing but that comes before "ready", which comes once.
OnlyFailed(q) == \A i \in 1 .. Len(q) : q[i] = "failed"
ReadyLeads(q) ==
  \A i, j \in 1 .. Len(q) : i < j => q[j] # "ready" \/ q[i] = "failed"
PostedInv ==
  /\ ReadyLeads(posted)
  /\ ~stream.node => OnlyFailed(posted)
  /\ stream.stage \in {"paused", "streaming"} => stream.node
  /\ stream.stage = "gone" => posted = <<>>
\* Buffers are only in a stream that was started and not destroyed, and an
\* agreed format needs its devices until they go.
MemoryInv ==
  /\ \A b \in Buffers : memory[b] # None => pool[b] # None
  /\ \A b \in Buffers : memory[b] = "bo" => stream.devices
  /\ stream.stage \in {"new", "destroyed", "gone"} => \A b \in Buffers : pool[b] = None
  /\ stream.dma /\ stream.stage # "gone" => stream.devices
StreamInv == Str!TypeOK /\ PostedInv /\ MemoryInv

\* A call that is posted comes last.
LEMMA PostOne ==
  ASSUME NEW q \in Seq(Call), NEW c \in Call
  PROVE  /\ Append(q, c) \in Seq(Call)
         /\ Len(Append(q, c)) = Len(q) + 1 /\ Len(q) \in Nat
         /\ Append(q, c)[Len(q) + 1] = c
         /\ \A i \in 1 .. Len(q) : Append(q, c)[i] = q[i]
OBVIOUS

LEMMA PostKeepsOrder ==
  ASSUME NEW q \in Seq(Call), NEW c \in Call, ReadyLeads(q), c = "ready" => OnlyFailed(q)
  PROVE  ReadyLeads(Append(q, c))
<1> DEFINE r == Append(q, c)
<1>1. /\ Len(r) = Len(q) + 1 /\ Len(q) \in Nat /\ r[Len(q) + 1] = c
      /\ \A i \in 1 .. Len(q) : r[i] = q[i]
  BY PostOne
<1> HIDE DEF r
<1> SUFFICES ASSUME NEW i \in 1 .. Len(r), NEW j \in 1 .. Len(r), i < j
             PROVE  r[j] # "ready" \/ r[i] = "failed"
  BY DEF ReadyLeads, r
<1>2. i \in 1 .. Len(q) /\ r[i] = q[i]
  BY <1>1
<1>3. CASE j = Len(q) + 1
  BY <1>1, <1>2, <1>3 DEF OnlyFailed
<1>4. CASE j # Len(q) + 1
  <2>1. j \in 1 .. Len(q) /\ r[j] = q[j]
    BY <1>1, <1>4
  <2> QED BY <1>2, <2>1 DEF ReadyLeads
<1> QED BY <1>3, <1>4

LEMMA PostFailure ==
  ASSUME NEW q \in Seq(Call), OnlyFailed(q) PROVE OnlyFailed(Append(q, "failed"))
<1>1. "failed" \in Call
  BY DEF Call
<1> QED BY <1>1, PostOne DEF OnlyFailed

LEMMA TakeFirst ==
  ASSUME NEW q \in Seq(Call), q # <<>>
  PROVE  /\ Tail(q) \in Seq(Call)
         /\ ReadyLeads(q) => ReadyLeads(Tail(q))
         /\ OnlyFailed(q) => OnlyFailed(Tail(q))
<1>1. /\ Tail(q) \in Seq(Call) /\ Len(q) \in Nat /\ Len(Tail(q)) = Len(q) - 1
      /\ \A i \in 1 .. Len(q) - 1 : Tail(q)[i] = q[i + 1]
  BY HeadTailProperties, LenProperties
<1>2. ReadyLeads(q) => ReadyLeads(Tail(q))
  <2> SUFFICES ASSUME ReadyLeads(q), NEW i \in 1 .. Len(q) - 1, NEW j \in 1 .. Len(q) - 1, i < j
               PROVE  q[j + 1] # "ready" \/ q[i + 1] = "failed"
    BY <1>1 DEF ReadyLeads
  <2>1. i + 1 \in 1 .. Len(q) /\ j + 1 \in 1 .. Len(q) /\ i + 1 < j + 1
    BY <1>1
  <2> QED BY <2>1 DEF ReadyLeads
<1>3. OnlyFailed(q) => OnlyFailed(Tail(q))
  BY <1>1 DEF OnlyFailed
<1> QED BY <1>1, <1>2, <1>3

LEMMA StreamInit == PartnersAssumption /\ Str!Init => StreamInv
<1> SUFFICES ASSUME PartnersAssumption, Str!Init PROVE StreamInv
  OBVIOUS
<1>1. /\ stream.stage = "new" /\ ~stream.node /\ ~stream.dma /\ posted = <<>>
      /\ \A b \in Buffers : pool[b] = None /\ memory[b] = None
  BY DEF Str!Init, stream, pool, memory, posted
<1>2. Str!TypeOK
  <2>1. <<>> \in Seq(Call)
    OBVIOUS
  <2> QED BY <2>1 DEF Str!Init, Str!TypeOK, Call
<1>3. PostedInv
  BY <1>1 DEF PostedInv, ReadyLeads, OnlyFailed
<1>4. MemoryInv
  BY <1>1 DEF MemoryInv, PartnersAssumption
<1> QED BY <1>2, <1>3, <1>4 DEF StreamInv

\* What is posted when the stream changes its state.
LEMMA ReachesStep ==
  ASSUME StreamInv, NEW stage, Str!Reaches(stage), UNCHANGED <<v2, v3>>,
         \/ stream.stage \in {"idle", "streaming"} /\ stage = "paused"
         \/ stream.stage = "paused" /\ stage = "streaming"
         \/ stream.stage \in {"idle", "paused", "streaming"} /\ stage = "error"
  PROVE  StreamInv'
<1> USE DEF stream, pool, memory, posted
<1>t. Str!TypeOK
  BY DEF StreamInv
<1>0. posted \in Seq(Call) /\ "ready" \in Call /\ "frameNeeded" \in Call /\ "failed" \in Call
  BY <1>t DEF Str!TypeOK, Call
<1> DEFINE first == stage # "error" /\ ~stream.node
           one == Append(posted, "ready")
<1>1. stream' = [stream EXCEPT !.stage = stage, !.node = @ \/ first]
  BY DEF Str!Reaches
<1>2. /\ stream'.stage = stage /\ stream'.dma = stream.dma /\ stream'.devices = stream.devices
      /\ stream'.node = (stream.node \/ first)
      /\ stream' \in [stage : {"new", "idle", "paused", "streaming", "error", "stopped", "destroyed", "gone"},
                      node : BOOLEAN, dma : BOOLEAN, devices : BOOLEAN]
  BY <1>1, <1>t DEF Str!TypeOK
<1>3. MemoryInv'
  BY <1>2, <1>t DEF StreamInv, MemoryInv, Str!TypeOK
<1>4. /\ first => posted' = Append(one, "frameNeeded")
      /\ ~first /\ stage = "streaming" => posted' = Append(posted, "frameNeeded")
      /\ ~first /\ stage = "error" => posted' = Append(posted, "failed")
      /\ ~first /\ stage = "paused" => posted' = posted
  <2>1. posted' = posted \o (IF first THEN <<"ready">> ELSE <<>>)
                         \o (IF first \/ stage = "streaming" THEN <<"frameNeeded">> ELSE <<>>)
                         \o (IF stage = "error" THEN <<"failed">> ELSE <<>>)
    BY DEF Str!Reaches
  <2>2. \A q \in Seq(Call) : q \o <<>> = q
    OBVIOUS
  <2>3. \A q \in Seq(Call), c \in Call : q \o <<c>> = Append(q, c) /\ Append(q, c) \in Seq(Call)
    OBVIOUS
  <2> HIDE DEF first
  <2>4. CASE first
    <3>1. stage # "error"
      BY <2>4 DEF first
    <3> QED BY <1>0, <2>1, <2>2, <2>3, <2>4, <3>1
  <2>5. ~first /\ stage = "error" => posted' = Append(posted, "failed")
    BY <1>0, <2>1, <2>2, <2>3
  <2>6. ~first /\ stage = "streaming" => posted' = Append(posted, "frameNeeded")
    BY <1>0, <2>1, <2>2, <2>3
  <2>7. ~first /\ stage = "paused" => posted' = posted
    BY <1>0, <2>1, <2>2, <2>3
  <2> QED BY <2>4, <2>5, <2>6, <2>7
<1>5. ReadyLeads(posted)
  BY DEF StreamInv, PostedInv
<1>6. ~stream.node => OnlyFailed(posted)
  BY DEF StreamInv, PostedInv
<1>7. posted' \in Seq(Call) /\ ReadyLeads(posted') /\ (~stream'.node => OnlyFailed(posted'))
  <2>1. CASE first
    <3>1. one \in Seq(Call) /\ ReadyLeads(one)
      BY <1>0, <1>5, <1>6, <2>1, PostOne, PostKeepsOrder
    <3>2. posted' \in Seq(Call) /\ ReadyLeads(posted')
      <4> DEFINE next == "frameNeeded"
      <4>1. next \in Call /\ next # "ready"
        BY DEF Call
      <4>2. posted' = Append(one, next)
        BY <1>4, <2>1
      <4> HIDE DEF next, one
      <4>3. Append(one, next) \in Seq(Call) /\ ReadyLeads(Append(one, next))
        BY ONLY <3>1, <4>1, PostOne, PostKeepsOrder
      <4> QED BY <4>2, <4>3
    <3> QED BY <1>2, <2>1, <3>2
  <2>2. CASE ~first /\ stage = "streaming"
    <3>1. stream.node
      BY <2>2
    <3>2. stream'.node
      BY <1>2, <3>1
    <3>3. posted' = Append(posted, "frameNeeded") /\ "frameNeeded" # "ready"
      BY <1>4, <2>2
    <3>4. posted' \in Seq(Call) /\ ReadyLeads(posted')
      BY <1>0, <1>5, <3>3, PostOne, PostKeepsOrder
    <3> QED BY <3>2, <3>4
  <2>3. CASE ~first /\ stage = "error"
    <3>1. posted' = Append(posted, "failed") /\ "failed" # "ready"
      BY <1>4, <2>3
    <3>2. posted' \in Seq(Call) /\ ReadyLeads(posted')
      BY <1>0, <1>5, <3>1, PostOne, PostKeepsOrder
    <3>3. ~stream'.node => OnlyFailed(posted')
      BY <1>0, <1>2, <1>6, <3>1, PostFailure
    <3> QED BY <3>2, <3>3
  <2>4. CASE ~first /\ stage = "paused"
    BY <1>0, <1>2, <1>4, <1>5, <1>6, <2>4
  <2> QED BY <2>1, <2>2, <2>3, <2>4
<1>8. stream'.stage \in {"paused", "streaming"} => stream'.node
  BY <1>2
<1>9. PostedInv'
  BY <1>2, <1>7, <1>8 DEF PostedInv
<1>10. Str!TypeOK'
  BY <1>2, <1>7, <1>t DEF Str!TypeOK, Call
<1> QED BY <1>3, <1>9, <1>10 DEF StreamInv

\* A call other than "ready" is posted.
LEMMA PostStep ==
  ASSUME Str!TypeOK, PostedInv, NEW c \in Call, posted' = Append(posted, c), UNCHANGED v1,
         c = "failed" \/ (c = "frameNeeded" /\ stream.node),
         stream.stage # "gone"
  PROVE  PostedInv' /\ posted' \in Seq(Call)
<1> USE DEF stream, posted
<1>0. posted \in Seq(Call) /\ "failed" \in Call
  BY DEF Str!TypeOK, Call
<1>1. posted' \in Seq(Call) /\ ReadyLeads(posted')
  BY <1>0, PostOne, PostKeepsOrder DEF PostedInv
<1>2. ~stream.node => OnlyFailed(posted')
  BY <1>0, PostFailure DEF PostedInv
<1> QED BY <1>1, <1>2 DEF PostedInv

\* The pool and the memory change alone.
LEMMA PoolStep ==
  ASSUME StreamInv, UNCHANGED <<v1, v4>>,
         pool' \in [Buffers -> {None, "free", "shown"}],
         memory' \in [Buffers -> {None, "memfd", "bo"}], MemoryInv'
  PROVE  StreamInv'
BY DEF StreamInv, Str!TypeOK, PostedInv, stream, pool, memory, posted

LEMMA StreamStep ==
  ASSUME PartnersAssumption, StreamInv, [Str!Next]_strVars PROVE StreamInv'
<1> USE DEF stream, pool, memory, posted
<1>n. None \notin {"free", "shown", "memfd", "bo"}
  BY DEF PartnersAssumption
<1>t. Str!TypeOK /\ PostedInv /\ MemoryInv
  BY DEF StreamInv
<1>s. /\ stream \in [stage : {"new", "idle", "paused", "streaming", "error", "stopped", "destroyed", "gone"},
                     node : BOOLEAN, dma : BOOLEAN, devices : BOOLEAN]
      /\ pool \in [Buffers -> {None, "free", "shown"}] /\ memory \in [Buffers -> {None, "memfd", "bo"}]
      /\ posted \in Seq(Call)
  BY <1>t DEF Str!TypeOK, Call
<1>0. CASE UNCHANGED strVars
  BY <1>0, <1>t DEF strVars, StreamInv, Str!TypeOK, PostedInv, MemoryInv
<1>1. CASE Str!StartStream
  <2>1. PICK stage \in {"idle", "stopped"} : stream' = [stream EXCEPT !.stage = stage]
    BY <1>1 DEF Str!StartStream
  <2>2. stream.stage = "new" /\ UNCHANGED <<v2, v3, v4>>
    BY <1>1 DEF Str!StartStream
  <2>3. PostedInv' /\ MemoryInv'
    BY <1>s, <1>t, <2>1, <2>2 DEF PostedInv, MemoryInv
  <2> QED BY <1>t, <2>1, <2>2, <2>3 DEF StreamInv, Str!TypeOK
<1>2. CASE Str!StateChanged
  <2>1. UNCHANGED <<v2, v3>>
    BY <1>2 DEF Str!StateChanged
  <2> QED BY <1>2, <2>1, ReachesStep DEF Str!StateChanged
<1>3. CASE Str!ParamChanged
  <2>1. PICK dma \in {FALSE, stream.devices} : stream' = [stream EXCEPT !.dma = dma]
    BY <1>3 DEF Str!ParamChanged
  <2>2. stream.stage \in {"idle", "paused"} /\ UNCHANGED <<v2, v3, v4>>
    BY <1>3 DEF Str!ParamChanged
  <2>3. PostedInv' /\ MemoryInv'
    BY <1>s, <1>t, <2>1, <2>2 DEF PostedInv, MemoryInv
  <2>4. dma \in BOOLEAN
    BY <1>s
  <2> QED BY <1>t, <2>1, <2>2, <2>3, <2>4 DEF StreamInv, Str!TypeOK
<1>4. ASSUME NEW b \in Buffers, Str!AddBuffer(b) PROVE StreamInv'
  <2>1. /\ stream.stage \in {"idle", "paused"} /\ pool[b] = None
        /\ pool' = [pool EXCEPT ![b] = "free"] /\ stream' = stream
    BY <1>4 DEF Str!AddBuffer
  <2>2. CASE Str!Allocate(b) /\ posted' = posted
    <3>1. memory' = [memory EXCEPT ![b] = IF stream.dma THEN "bo" ELSE "memfd"]
      BY <2>2 DEF Str!Allocate
    <3>2. MemoryInv'
      BY <1>n, <1>s, <1>t, <2>1, <3>1 DEF MemoryInv
    <3> QED BY <1>s, <2>1, <2>2, <3>1, <3>2, PoolStep
  <2>3. CASE posted' = Append(posted, "failed") /\ memory' = memory
    <3>1. MemoryInv'
      BY <1>n, <1>s, <1>t, <2>1, <2>3 DEF MemoryInv
    <3>2. PostedInv' /\ posted' \in Seq(Call)
      BY <1>t, <2>1, <2>3, PostStep DEF Call
    <3> QED BY <1>s, <2>1, <2>3, <3>1, <3>2 DEF StreamInv, Str!TypeOK, Call
  <2> QED BY <1>4, <2>2, <2>3 DEF Str!AddBuffer
<1>5. ASSUME NEW b \in Buffers, Str!RemoveBuffer(b) PROVE StreamInv'
  <2>1. stream' = stream /\ posted' = posted /\ Str!Removed({b}) /\ stream.stage \notin {"new", "destroyed", "gone"}
    BY <1>5 DEF Str!RemoveBuffer, Str!Runs
  <2>2. /\ pool' = [c \in Buffers |-> IF c \in {b} THEN None ELSE pool[c]]
        /\ memory' = [c \in Buffers |-> IF c \in {b} THEN None ELSE memory[c]]
    BY <2>1 DEF Str!Removed
  <2>3. MemoryInv'
    BY <1>n, <1>s, <1>t, <2>1, <2>2 DEF MemoryInv
  <2> QED BY <1>s, <2>1, <2>2, <2>3, PoolStep
<1>6. ASSUME NEW b \in Buffers, Str!Process(b) PROVE StreamInv'
  <2>1. /\ stream.stage = "streaming" /\ pool[b] = "shown" /\ stream' = stream /\ memory' = memory
        /\ pool' = [pool EXCEPT ![b] = "free"] /\ posted' = Append(posted, "frameNeeded")
    BY <1>6 DEF Str!Process
  <2>2. MemoryInv'
    BY <1>n, <1>s, <1>t, <2>1 DEF MemoryInv
  <2>3. stream.node
    BY <1>t, <2>1 DEF PostedInv
  <2>4. PostedInv' /\ posted' \in Seq(Call)
    BY <1>t, <2>1, <2>3, PostStep DEF Call
  <2> QED BY <1>s, <2>1, <2>2, <2>4 DEF StreamInv, Str!TypeOK, Call
<1>7. CASE Str!Submit
  <2>1. PICK b \in Buffers : pool[b] = "free" /\ pool' = [pool EXCEPT ![b] = "shown"]
    BY <1>7 DEF Str!Submit
  <2>2. stream' = stream /\ posted' = posted /\ memory' = memory
    BY <1>7 DEF Str!Submit
  <2>3. MemoryInv'
    BY <1>n, <1>s, <1>t, <2>1, <2>2 DEF MemoryInv
  <2> QED BY <1>s, <2>1, <2>2, <2>3, PoolStep
<1>8. CASE Str!Take
  <2>1. posted # <<>> /\ posted' = Tail(posted) /\ UNCHANGED <<v1, v2, v3>>
    BY <1>8 DEF Str!Take
  <2>2. PostedInv' /\ posted' \in Seq(Call)
    BY <1>s, <1>t, <2>1, TakeFirst DEF PostedInv
  <2> QED BY <1>s, <1>t, <2>1, <2>2 DEF StreamInv, Str!TypeOK, MemoryInv, Call
<1>9. CASE Str!StopLoop
  <2>1. /\ stream.stage \in {"idle", "paused", "streaming", "error"}
        /\ stream' = [stream EXCEPT !.stage = "stopped"] /\ UNCHANGED <<v2, v3, v4>>
    BY <1>9 DEF Str!StopLoop, Str!Runs
  <2>2. PostedInv' /\ MemoryInv'
    BY <1>s, <1>t, <2>1 DEF PostedInv, MemoryInv
  <2> QED BY <1>t, <2>1, <2>2 DEF StreamInv, Str!TypeOK
<1>10. CASE Str!DestroyStream
  <2> DEFINE bs == {b \in Buffers : pool[b] # None}
  <2>1. /\ stream.stage = "stopped" /\ stream' = [stream EXCEPT !.stage = "destroyed"] /\ posted' = posted
        /\ pool' = [c \in Buffers |-> IF c \in bs THEN None ELSE pool[c]]
        /\ memory' = [c \in Buffers |-> IF c \in bs THEN None ELSE memory[c]]
    BY <1>10 DEF Str!DestroyStream, Str!Removed
  <2>2. \A b \in Buffers : pool'[b] = None /\ memory'[b] = None
    BY <1>s, <1>t, <2>1 DEF MemoryInv
  <2>3. PostedInv' /\ MemoryInv'
    BY <1>n, <1>s, <1>t, <2>1, <2>2 DEF PostedInv, MemoryInv
  <2>4. pool' \in [Buffers -> {None, "free", "shown"}] /\ memory' \in [Buffers -> {None, "memfd", "bo"}]
    BY <1>s, <2>1
  <2> QED BY <1>t, <2>1, <2>3, <2>4 DEF StreamInv, Str!TypeOK
<1>11. CASE Str!DestroyDevices
  <2>1. /\ stream.stage = "destroyed" /\ stream' = [stream EXCEPT !.stage = "gone", !.devices = FALSE]
        /\ posted' = <<>> /\ UNCHANGED <<v2, v3>>
    BY <1>11 DEF Str!DestroyDevices
  <2>2. /\ stream'.stage = "gone" /\ stream'.devices = FALSE /\ stream'.node = stream.node
        /\ stream' \in [stage : {"new", "idle", "paused", "streaming", "error", "stopped", "destroyed", "gone"},
                        node : BOOLEAN, dma : BOOLEAN, devices : BOOLEAN]
    BY <1>s, <2>1
  <2>3. \A b \in Buffers : pool[b] = None /\ memory[b] = None
    BY <1>t, <2>1 DEF MemoryInv
  <2>4. PostedInv'
    BY <2>1, <2>2 DEF PostedInv, ReadyLeads, OnlyFailed
  <2>5. MemoryInv'
    BY <1>n, <2>1, <2>2, <2>3 DEF MemoryInv
  <2>6. posted' \in Seq(Call)
    BY <2>1
  <2> QED BY <1>s, <2>1, <2>2, <2>4, <2>5, <2>6 DEF StreamInv, Str!TypeOK, Call
<1>12. CASE Str!NextStream
  <2>1. PICK devices \in BOOLEAN :
          stream' = [stage |-> "new", node |-> FALSE, dma |-> FALSE, devices |-> devices]
    BY <1>12 DEF Str!NextStream
  <2>2. stream.stage = "gone" /\ UNCHANGED <<v2, v3, v4>>
    BY <1>12 DEF Str!NextStream
  <2>3. \A b \in Buffers : pool[b] = None /\ memory[b] = None
    BY <1>t, <2>2 DEF MemoryInv
  <2>4. posted = <<>>
    BY <1>t, <2>2 DEF PostedInv
  <2>5. PostedInv'
    BY <2>1, <2>2, <2>4 DEF PostedInv, ReadyLeads, OnlyFailed
  <2>6. MemoryInv'
    BY <1>n, <2>1, <2>2, <2>3 DEF MemoryInv
  <2> QED BY <1>s, <2>1, <2>2, <2>5, <2>6 DEF StreamInv, Str!TypeOK, Call
<1> QED BY <1>0, <1>1, <1>2, <1>3, <1>4, <1>5, <1>6, <1>7, <1>8, <1>9, <1>10, <1>11, <1>12 DEF Str!Next, strVars

\* "ready" is posted once, first but for failures, with a node.
LEMMA StreamSound == StreamInv => Str!TypeOK /\ Str!ReadyFirst /\ Str!MemoryOwned
<1> SUFFICES ASSUME StreamInv PROVE Str!ReadyFirst /\ Str!MemoryOwned
  BY DEF StreamInv
<1> USE DEF stream, pool, memory, posted
<1> DEFINE ready == {i \in 1 .. Len(posted) : posted[i] = "ready"}
<1>1. ReadyLeads(posted) /\ (~stream.node => OnlyFailed(posted)) /\ Len(posted) \in Nat
  BY DEF StreamInv, PostedInv, Str!TypeOK
<1>2. \A i, j \in ready : i = j
  <2> SUFFICES ASSUME NEW i \in ready, NEW j \in ready, i < j PROVE FALSE
    BY <1>1
  <2> QED BY <1>1 DEF ReadyLeads
<1>3. Cardinality(ready) <= 1
  <2> HIDE DEF ready
  <2>1. CASE ready = {}
    BY <2>1, FS_EmptySet
  <2>2. CASE ready # {}
    <3>1. PICK i \in ready : TRUE
      BY <2>2
    <3>2. ready = {i}
      BY <1>2, <3>1
    <3>3. Cardinality({i}) = 1
      BY FS_Singleton
    <3> QED BY <3>2, <3>3
  <2> QED BY <2>1, <2>2
<1>4. \A i \in 1 .. Len(posted) : posted[i] \in {"ready", "frameNeeded"} => stream.node
  BY <1>1 DEF OnlyFailed
<1>5. Str!ReadyFirst
  <2>1. \A i, j \in 1 .. Len(posted) : i < j => posted[j] # "ready" \/ posted[i] = "failed"
    BY <1>1 DEF ReadyLeads
  <2> HIDE DEF ready
  <2>2. Cardinality({i \in 1 .. Len(posted) : posted[i] = "ready"}) <= 1
    BY <1>3 DEF ready
  <2> QED BY <1>4, <2>1, <2>2 DEF Str!ReadyFirst, Str!Cardinality, Cardinality
<1>6. Str!MemoryOwned
  BY DEF StreamInv, MemoryInv, Str!MemoryOwned
<1> QED BY <1>5, <1>6
-----------------------------------------------------------------------------
(* A finite set as a sequence: each element once. *)

LEMMA Enumerated ==
  ASSUME NEW S, IsFiniteSet(S)
  PROVE  /\ Cap!SetToSeq(S) \in Seq(S)
         /\ \A i, j \in 1 .. Len(Cap!SetToSeq(S)) :
              Cap!SetToSeq(S)[i] = Cap!SetToSeq(S)[j] => i = j
         /\ \A x \in S : \E i \in 1 .. Len(Cap!SetToSeq(S)) : Cap!SetToSeq(S)[i] = x
<1> DEFINE n == Cardinality(S)
           s == Cap!SetToSeq(S)
<1>1. n \in Nat /\ ExistsBijection(1 .. n, S)
  BY FS_CardinalityType
<1>2. PICK g \in [1 .. n -> S] : Cap!IsInjective(g)
  BY <1>1 DEF ExistsBijection, Bijection, Injection, IsInjective, Cap!IsInjective
<1>3. s = CHOOSE f \in [1 .. n -> S] : Cap!IsInjective(f)
  BY DEF Cap!SetToSeq, Cap!Cardinality, Cardinality
<1> HIDE DEF s, n
<1>4. s \in [1 .. n -> S] /\ Cap!IsInjective(s)
  BY <1>2, <1>3
<1>5. s \in Injection(1 .. n, S)
  BY <1>4 DEF Cap!IsInjective, Injection, IsInjective
<1>6. Cardinality(1 .. n) = Cardinality(S)
  <2>1. Cardinality(1 .. n) = IF 1 > n THEN 0 ELSE n - 1 + 1
    BY <1>1, FS_Interval
  <2>2. Cardinality(1 .. n) = n
    BY <1>1, <2>1
  <2> QED BY <2>2 DEF n
<1>7. s \in Surjection(1 .. n, S)
  BY <1>5, <1>6, FS_Injection
<1>8. s \in Seq(S) /\ Len(s) = n
  BY <1>1, <1>4
<1>9. \A i, j \in 1 .. n : s[i] = s[j] => i = j
  BY <1>4 DEF Cap!IsInjective
<1>10. \A x \in S : \E i \in 1 .. n : s[i] = x
  BY <1>7 DEF Surjection
<1> QED BY <1>8, <1>9, <1>10 DEF s

-----------------------------------------------------------------------------
(* Queues. *)

Items(q) == {q[i] : i \in 1 .. Len(q)}

LEMMA Joined ==
  ASSUME NEW T, NEW q \in Seq(T), NEW s \in Seq(T)
  PROVE  /\ q \o s \in Seq(T) /\ Len(q) \in Nat /\ Len(s) \in Nat /\ Len(q \o s) = Len(q) + Len(s)
         /\ \A i \in 1 .. Len(q) : (q \o s)[i] = q[i]
         /\ \A i \in 1 .. Len(s) : (q \o s)[Len(q) + i] = s[i]
         /\ \A i \in 1 .. Len(q \o s) :
              \/ i \in 1 .. Len(q) /\ (q \o s)[i] = q[i]
              \/ i - Len(q) \in 1 .. Len(s) /\ (q \o s)[i] = s[i - Len(q)]
OBVIOUS

LEMMA Added1 ==
  ASSUME NEW T, NEW q \in Seq(T), NEW e \in T
  PROVE  Append(q, e) = q \o <<e>> /\ <<e>> \in Seq(T) /\ Len(<<e>>) = 1 /\ <<e>>[1] = e
OBVIOUS

LEMMA Shortened ==
  ASSUME NEW T, NEW q \in Seq(T), q # <<>>
  PROVE  /\ Tail(q) \in Seq(T) /\ Len(q) \in Nat /\ Len(q) >= 1 /\ Len(Tail(q)) = Len(q) - 1
         /\ \A i \in 1 .. Len(q) - 1 : Tail(q)[i] = q[i + 1] /\ i + 1 \in 1 .. Len(q)
         /\ Head(q) = q[1] /\ 1 \in 1 .. Len(q) /\ Head(q) \in T
BY HeadTailProperties, LenProperties, EmptySeq

LEMMA ItemsJoined ==
  ASSUME NEW T, NEW q \in Seq(T), NEW s \in Seq(T) PROVE Items(q \o s) = Items(q) \cup Items(s)
<1>1. Items(q \o s) \subseteq Items(q) \cup Items(s)
  BY Joined DEF Items
<1>2. Items(q) \subseteq Items(q \o s)
  <2> SUFFICES ASSUME NEW i \in 1 .. Len(q) PROVE q[i] \in Items(q \o s)
    BY DEF Items
  <2>1. i \in 1 .. Len(q \o s) /\ (q \o s)[i] = q[i]
    BY Joined
  <2> QED BY <2>1 DEF Items
<1>3. Items(s) \subseteq Items(q \o s)
  <2> SUFFICES ASSUME NEW i \in 1 .. Len(s) PROVE s[i] \in Items(q \o s)
    BY DEF Items
  <2>1. Len(q) + i \in 1 .. Len(q \o s) /\ (q \o s)[Len(q) + i] = s[i]
    BY Joined
  <2> QED BY <2>1 DEF Items
<1> QED BY <1>1, <1>2, <1>3

LEMMA ItemsOne == \A e : Items(<<e>>) = {e}
BY DEF Items

LEMMA ItemsNone == Items(<<>>) = {}
BY DEF Items

LEMMA ItemsShortened ==
  ASSUME NEW T, NEW q \in Seq(T), q # <<>>
  PROVE  Items(q) = {Head(q)} \cup Items(Tail(q)) /\ Head(q) \in Items(q)
<1>1. /\ Len(q) \in Nat /\ Len(q) >= 1 /\ Len(Tail(q)) = Len(q) - 1 /\ Head(q) = q[1]
      /\ \A i \in 1 .. Len(q) - 1 : Tail(q)[i] = q[i + 1]
  BY Shortened
<1>2. Items(Tail(q)) \subseteq Items(q)
  BY <1>1 DEF Items
<1>3. Head(q) \in Items(q)
  BY <1>1 DEF Items
<1>4. Items(q) \subseteq {Head(q)} \cup Items(Tail(q))
  <2> SUFFICES ASSUME NEW i \in 1 .. Len(q) PROVE q[i] \in {Head(q)} \cup Items(Tail(q))
    BY DEF Items
  <2>1. CASE i = 1
    BY <1>1, <2>1
  <2>2. CASE i # 1
    <3>1. i - 1 \in 1 .. Len(Tail(q)) /\ Tail(q)[i - 1] = q[i]
      BY <1>1, <2>2
    <3> QED BY <3>1 DEF Items
  <2> QED BY <2>1, <2>2
<1> QED BY <1>2, <1>3, <1>4

LEMMA ItemsEnumerated ==
  ASSUME NEW S, IsFiniteSet(S) PROVE Cap!SetToSeq(S) \in Seq(S) /\ Items(Cap!SetToSeq(S)) = S
<1>1. Cap!SetToSeq(S) \in Seq(S)
  BY Enumerated
<1>2. Items(Cap!SetToSeq(S)) \subseteq S
  BY <1>1 DEF Items
<1>3. S \subseteq Items(Cap!SetToSeq(S))
  BY Enumerated DEF Items
<1> QED BY <1>1, <1>2, <1>3

LEMMA ItemsTyped == ASSUME NEW T, NEW q \in Seq(T) PROVE Items(q) \subseteq T
BY DEF Items

\* A sequence over a subset is one over the set.
LEMMA Widened == ASSUME NEW S, NEW T, S \subseteq T, NEW q \in Seq(S) PROVE q \in Seq(T)
OBVIOUS

-----------------------------------------------------------------------------
(* Screen capture: the compositor and the portal's child. *)

child == v1
window == v2
handles == v3
frames == v4
up == v5
down == v6
known == v7
asked == v8
capVars == <<v1, v2, v3, v4, v5, v6, v7, v8>>
capWire == <<v3, v4, v5, v6, v7, v8>>

Targets == CaptureWindows \cup {Screen}
CapRequest ==
  {Cap!Bind} \cup [rq : {"capture"}, of : CaptureFrames, target : Targets]
  \cup [rq : {"copy", "destroy"}, of : CaptureFrames] \cup [rq : {"drop"}, of : CaptureWindows]
CapEvent ==
  {Cap!Done} \cup [ev : {"toplevel", "closed"}, of : CaptureWindows]
  \cup [ev : {"buffer", "failed", "ready"}, of : CaptureFrames]

FramesType == [CaptureFrames -> {None} \cup [target : Targets, terminal : BOOLEAN]]
AskedType == [CaptureFrames -> {None} \cup [target : Targets, state : {"asked", "copying"}]]
HandlesType == [CaptureWindows -> {None, "open", "closed"}]
NoWindows == [w \in CaptureWindows |-> None]
NoFrames == [f \in CaptureFrames |-> None]
ChildType == [proc : {"none", "running", "exited"}, chan : BOOLEAN, conn : BOOLEAN,
              sig : BOOLEAN, timer : BOOLEAN, wanted : BOOLEAN]

CapTypes ==
  /\ child \in ChildType /\ window \in [CaptureWindows -> {"new", "open", "gone"}]
  /\ handles \in HandlesType /\ known \in HandlesType
  /\ frames \in FramesType /\ asked \in AskedType
  /\ up \in Seq(CapRequest) /\ down \in Seq(CapEvent)

\* The child process and its connection.
Live == child.conn /\ child.proc = "running"
ProcessInv ==
  /\ child.wanted => child.proc # "none" \/ child.timer
  /\ child.timer => child.proc = "none" /\ ~child.chan /\ child.wanted
  /\ child.conn => child.chan
  /\ child.chan => child.proc # "none"
\* Without a connection there is nothing; without the child's end, nothing of it.
EndedInv ==
  /\ ~child.conn => handles = NoWindows /\ frames = NoFrames /\ down = <<>>
  /\ ~Live => up = <<>> /\ known = NoWindows /\ asked = NoFrames

\* Requests under way: the bind is first, a capture is the first that says
\* something of its frame, a frame is destroyed when nobody waits for it, and a
\* window's handle is dropped when it is gone.
RequestsInv ==
  /\ \A i \in 1 .. Len(up) : i > 1 => up[i] # Cap!Bind
  /\ \A j \in 1 .. Len(up) : up[j].rq = "capture" =>
       /\ frames[up[j].of] = None
       /\ \A i \in 1 .. Len(up) : i < j => up[i] = Cap!Bind \/ up[i].of # up[j].of
  /\ \A i \in 1 .. Len(up) : up[i].rq = "destroy" => asked[up[i].of] = None
  /\ \A i \in 1 .. Len(up) : up[i].rq = "drop" => window[up[i].of] = "gone"

\* A handle is open, and so the frames of its window, while the window is there.
HandleInv ==
  /\ \A w \in CaptureWindows : handles[w] = "open" => window[w] = "open"
  /\ \A f \in CaptureFrames : frames[f] # None /\ frames[f].target # Screen /\ ~frames[f].terminal =>
       handles[frames[f].target] = "open"
  /\ \A w \in CaptureWindows : known[w] = "closed" => window[w] = "gone"

\* The end of a frame is on its way once, or not yet.
IsEnd(e, f) == e.ev \in {"failed", "ready"} /\ e.of = f
Ends(q, f) == {i \in 1 .. Len(q) : IsEnd(q[i], f)}
Never(q, f) == Ends(q, f) = {}
Once(q, f) == \E i : Ends(q, f) = {i}
EndsInv ==
  \A f \in CaptureFrames : asked[f] # None =>
    IF frames[f] # None /\ frames[f].terminal THEN Once(down, f) ELSE Never(down, f)

\* Before the bind is read the child was told nothing; after it, what it will
\* know of a window is what became of the window.
Shows(w) == Cap!Event("toplevel", w)
Closes(w) == Cap!Event("closed", w)
UnboundInv ==
  up # <<>> /\ Head(up) = Cap!Bind =>
    down = <<>> /\ handles = NoWindows /\ frames = NoFrames /\ known = NoWindows
ShownFirst(q) ==
  \A i, j \in 1 .. Len(q) : \A w \in CaptureWindows : q[i] = Shows(w) /\ q[j] = Closes(w) => i < j
ClosedInv ==
  /\ \A w \in CaptureWindows : Closes(w) \in Items(down) => window[w] = "gone"
  /\ ShownFirst(down)
KnownInv ==
  Live /\ Cap!Bound =>
    \A w \in CaptureWindows :
      /\ window[w] = "open" => handles[w] = "open" /\ (known[w] = "open" \/ Shows(w) \in Items(down))
      /\ window[w] # "open" =>
           Closes(w) \in Items(down) \/ (known[w] # "open" /\ Shows(w) \notin Items(down))

CaptureInv ==
  /\ CapTypes /\ ProcessInv /\ EndedInv /\ RequestsInv /\ HandleInv /\ EndsInv /\ UnboundInv
  /\ ClosedInv /\ KnownInv

-----------------------------------------------------------------------------
LEMMA NeverJoined ==
  ASSUME NEW q \in Seq(CapEvent), NEW s \in Seq(CapEvent), NEW f, Never(q, f), Never(s, f)
  PROVE  Never(q \o s, f)
<1> SUFFICES ASSUME NEW i \in 1 .. Len(q \o s), IsEnd((q \o s)[i], f) PROVE FALSE
  BY DEF Never, Ends
<1>1. CASE i \in 1 .. Len(q) /\ (q \o s)[i] = q[i]
  BY <1>1 DEF Never, Ends
<1>2. CASE i - Len(q) \in 1 .. Len(s) /\ (q \o s)[i] = s[i - Len(q)]
  BY <1>2 DEF Never, Ends
<1> QED BY <1>1, <1>2, Joined

LEMMA OnceJoined ==
  ASSUME NEW q \in Seq(CapEvent), NEW s \in Seq(CapEvent), NEW f,
         \/ Once(q, f) /\ Never(s, f)
         \/ Never(q, f) /\ Once(s, f)
  PROVE  Once(q \o s, f)
<1> USE DEF Never, Once, Ends
<1> DEFINE r == q \o s
<1>1. /\ Len(q) \in Nat /\ Len(s) \in Nat /\ Len(r) = Len(q) + Len(s)
      /\ \A i \in 1 .. Len(q) : r[i] = q[i]
      /\ \A i \in 1 .. Len(s) : r[Len(q) + i] = s[i]
      /\ \A i \in 1 .. Len(r) :
           \/ i \in 1 .. Len(q) /\ r[i] = q[i]
           \/ i - Len(q) \in 1 .. Len(s) /\ r[i] = s[i - Len(q)]
  BY Joined
<1> HIDE DEF r
<1>2. CASE Once(q, f) /\ Never(s, f)
  <2>1. PICK i : Ends(q, f) = {i}
    BY <1>2
  <2>2. \A j \in 1 .. Len(r) : IsEnd(r[j], f) <=> j = i
    BY <1>1, <1>2, <2>1
  <2>3. i \in 1 .. Len(r)
    <3>1. i \in Ends(q, f)
      BY <2>1
    <3>2. i \in 1 .. Len(q)
      BY <3>1
    <3> QED BY <1>1, <3>2
  <2>4. Ends(r, f) = {i}
    BY <2>2, <2>3
  <2> QED BY <2>4 DEF r
<1>3. CASE Never(q, f) /\ Once(s, f)
  <2>1. PICK i : Ends(s, f) = {i}
    BY <1>3
  <2>2. i \in 1 .. Len(s) /\ IsEnd(s[i], f) /\ \A j \in 1 .. Len(s) : IsEnd(s[j], f) => j = i
    BY <2>1
  <2>3. Len(q) + i \in 1 .. Len(r) /\ IsEnd(r[Len(q) + i], f)
    BY <1>1, <2>2
  <2>4. \A j \in 1 .. Len(r) : IsEnd(r[j], f) => j = Len(q) + i
    <3> SUFFICES ASSUME NEW j \in 1 .. Len(r), IsEnd(r[j], f) PROVE j = Len(q) + i
      OBVIOUS
    <3>1. CASE j \in 1 .. Len(q) /\ r[j] = q[j]
      BY <1>3, <3>1
    <3>2. CASE j - Len(q) \in 1 .. Len(s) /\ r[j] = s[j - Len(q)]
      <4>1. j - Len(q) = i
        BY <2>2, <3>2
      <4> QED BY <1>1, <2>2, <4>1
    <3> QED BY <1>1, <3>1, <3>2
  <2>5. Ends(r, f) = {Len(q) + i}
    BY <2>3, <2>4
  <2> QED BY <2>5 DEF r
<1> QED BY <1>2, <1>3

LEMMA NeverItems ==
  ASSUME NEW q \in Seq(CapEvent), NEW f, \A e \in Items(q) : ~IsEnd(e, f) PROVE Never(q, f)
BY DEF Never, Ends, Items

LEMMA NeverOne == \A e, f : ~IsEnd(e, f) => Never(<<e>>, f)
<1> SUFFICES ASSUME NEW e, NEW f, ~IsEnd(e, f) PROVE Never(<<e>>, f)
  OBVIOUS
<1>1. \A i \in 1 .. Len(<<e>>) : <<e>>[i] = e
  OBVIOUS
<1> QED BY <1>1 DEF Never, Ends

LEMMA OnceOne == \A e, f : IsEnd(e, f) => Once(<<e>>, f)
<1> SUFFICES ASSUME NEW e, NEW f, IsEnd(e, f) PROVE Once(<<e>>, f)
  OBVIOUS
<1>1. Ends(<<e>>, f) = {1}
  BY DEF Ends
<1> QED BY <1>1 DEF Once

LEMMA EndsShortened ==
  ASSUME NEW q \in Seq(CapEvent), q # <<>>, NEW f, ~IsEnd(Head(q), f)
  PROVE  /\ Never(q, f) => Never(Tail(q), f)
         /\ Once(q, f) => Once(Tail(q), f)
<1> USE DEF Never, Once, Ends
<1>1. /\ Len(q) \in Nat /\ Len(q) >= 1 /\ Len(Tail(q)) = Len(q) - 1 /\ Head(q) = q[1]
      /\ \A i \in 1 .. Len(q) - 1 : Tail(q)[i] = q[i + 1] /\ i + 1 \in 1 .. Len(q)
  BY Shortened
<1>2. Never(q, f) => Never(Tail(q), f)
  BY <1>1
<1>3. ASSUME Once(q, f) PROVE Once(Tail(q), f)
  <2>1. PICK i : Ends(q, f) = {i}
    BY <1>3
  <2>2. i \in 1 .. Len(q) /\ IsEnd(q[i], f) /\ i # 1 /\ \A j \in 1 .. Len(q) : IsEnd(q[j], f) => j = i
    BY <1>1, <2>1
  <2>3. i - 1 \in 1 .. Len(Tail(q)) /\ IsEnd(Tail(q)[i - 1], f)
    BY <1>1, <2>2
  <2>4. \A j \in 1 .. Len(Tail(q)) : IsEnd(Tail(q)[j], f) => j = i - 1
    BY <1>1, <2>2
  <2>5. Ends(Tail(q), f) = {i - 1}
    BY <2>3, <2>4
  <2> QED BY <2>5
<1> QED BY <1>2, <1>3

\* The failures of some frames, each once.
LEMMA OnceEach ==
  ASSUME NEW fs \in SUBSET CaptureFrames, IsFiniteSet(CaptureFrames)
  PROVE  LET s == Cap!SetToSeq({Cap!Event("failed", f) : f \in fs})
         IN /\ s \in Seq(CapEvent) /\ Items(s) = {Cap!Event("failed", f) : f \in fs}
            /\ \A f \in CaptureFrames : IF f \in fs THEN Once(s, f) ELSE Never(s, f)
<1> DEFINE S == {Cap!Event("failed", f) : f \in fs}
           s == Cap!SetToSeq(S)
<1>1. IsFiniteSet(S)
  <2>1. IsFiniteSet(fs)
    BY FS_Subset
  <2> DEFINE g == [f \in fs |-> Cap!Event("failed", f)]
  <2>2. g \in Surjection(fs, S)
    BY DEF Surjection
  <2> QED BY <2>1, <2>2, FS_Surjection
<1>2. /\ s \in Seq(S) /\ Items(s) = S
      /\ \A i, j \in 1 .. Len(s) : s[i] = s[j] => i = j
      /\ \A x \in S : \E i \in 1 .. Len(s) : s[i] = x
  BY <1>1, Enumerated, ItemsEnumerated
<1>3. \A f \in fs : Cap!Event("failed", f) \in CapEvent
  BY DEF Cap!Event, CapEvent
<1>4. \A i \in 1 .. Len(s) : s[i] \in S
  <2>1. \A q \in Seq(S) : \A i \in 1 .. Len(q) : q[i] \in S
    OBVIOUS
  <2> QED BY <1>2, <2>1
<1>5. s \in Seq(CapEvent)
  BY <1>2, <1>3, Widened
<1>6. \A e \in S, f \in CaptureFrames : IsEnd(e, f) => f \in fs /\ e = Cap!Event("failed", f)
  BY DEF IsEnd, Cap!Event
<1>7. \A f \in fs : IsEnd(Cap!Event("failed", f), f)
  BY DEF IsEnd, Cap!Event
<1> HIDE DEF s
<1>8. ASSUME NEW f \in CaptureFrames, f \in fs PROVE Once(s, f)
  <2>1. PICK i \in 1 .. Len(s) : s[i] = Cap!Event("failed", f)
    BY <1>2, <1>8
  <2>2. Ends(s, f) = {i}
    BY <1>2, <1>4, <1>6, <1>7, <1>8, <2>1 DEF Ends
  <2> QED BY <2>2 DEF Once
<1>9. ASSUME NEW f \in CaptureFrames, f \notin fs PROVE Never(s, f)
  BY <1>4, <1>6, <1>9 DEF Never, Ends
<1> QED BY <1>2, <1>5, <1>8, <1>9 DEF s

-----------------------------------------------------------------------------
USE DEF child, window, handles, frames, up, down, known, asked

LEMMA CapNone ==
  ASSUME PartnersAssumption
  PROVE  /\ None \notin {"open", "closed"} /\ Screen \notin CaptureWindows
         /\ \A t \in Targets : /\ \A b \in BOOLEAN : [target |-> t, terminal |-> b] # None
                               /\ \A s \in {"asked", "copying"} : [target |-> t, state |-> s] # None
BY DEF PartnersAssumption, Targets

LEMMA ClearedIs ==
  /\ Cap!Cleared.handles = NoWindows /\ Cap!Cleared.frames = NoFrames /\ Cap!Cleared.up = <<>>
  /\ Cap!Cleared.down = <<>> /\ Cap!Cleared.known = NoWindows /\ Cap!Cleared.asked = NoFrames
BY DEF Cap!Cleared, NoWindows, NoFrames

LEMMA NothingTyped ==
  /\ NoWindows \in HandlesType /\ NoFrames \in FramesType /\ NoFrames \in AskedType
  /\ <<>> \in Seq(CapRequest) /\ <<>> \in Seq(CapEvent) /\ <<Cap!Bind>> \in Seq(CapRequest)
BY DEF NoWindows, NoFrames, HandlesType, FramesType, AskedType, CapRequest

\* Nothing of a connection is left.
LEMMA ClosedStep ==
  ASSUME PartnersAssumption,
         handles' = NoWindows, frames' = NoFrames, up' = <<>>, down' = <<>>, known' = NoWindows,
         asked' = NoFrames, window' \in [CaptureWindows -> {"new", "open", "gone"}],
         child' \in ChildType, ProcessInv', ~child'.conn
  PROVE  CaptureInv'
<1>n. None \notin {"open", "closed"}
  BY CapNone
<1>1. CapTypes'
  BY NothingTyped DEF CapTypes
<1>2. EndedInv' /\ UnboundInv'
  BY DEF EndedInv, UnboundInv
<1>3. RequestsInv'
  BY DEF RequestsInv
<1>4. HandleInv' /\ EndsInv'
  BY <1>n DEF HandleInv, EndsInv, NoWindows, NoFrames
<1>5. ClosedInv'
  BY ItemsNone DEF ClosedInv, ShownFirst
<1>6. KnownInv'
  BY DEF KnownInv, Live
<1> QED BY <1>1, <1>2, <1>3, <1>4, <1>5, <1>6 DEF CaptureInv

LEMMA CaptureInit == PartnersAssumption /\ Cap!Init => CaptureInv
<1> SUFFICES ASSUME PartnersAssumption, Cap!Init PROVE CaptureInv
  OBVIOUS
<1>n. None \notin {"open", "closed"}
  BY CapNone
<1>0. /\ handles = NoWindows /\ frames = NoFrames /\ up = <<>> /\ down = <<>> /\ known = NoWindows
      /\ asked = NoFrames /\ window \in [CaptureWindows -> {"new", "open"}]
      /\ child = [proc |-> "none", chan |-> FALSE, conn |-> FALSE, sig |-> FALSE, timer |-> FALSE, wanted |-> FALSE]
  BY ClearedIs DEF Cap!Init
<1>1. CapTypes
  BY <1>0, NothingTyped DEF CapTypes, ChildType
<1>2. EndedInv /\ UnboundInv /\ ProcessInv
  BY <1>0 DEF EndedInv, UnboundInv, ProcessInv
<1>3. RequestsInv
  BY <1>0 DEF RequestsInv
<1>4. HandleInv /\ EndsInv
  BY <1>0, <1>n DEF HandleInv, EndsInv, NoWindows, NoFrames
<1>5. ClosedInv
  BY <1>0, ItemsNone DEF ClosedInv, ShownFirst
<1>6. KnownInv
  BY <1>0 DEF KnownInv, Live
<1> QED BY <1>1, <1>2, <1>3, <1>4, <1>5, <1>6 DEF CaptureInv

-----------------------------------------------------------------------------
(* Requests. *)

\* The first request is read: what follows stays, if what it does to the frames
\* leaves those that are still asked for.
LEMMA RequestRead ==
  ASSUME CaptureInv, up # <<>>, up' = Tail(up), asked' = asked, window' = window,
         \A j \in 1 .. Len(up) : j > 1 /\ up[j].rq = "capture" => frames'[up[j].of] = None
  PROVE  up' \in Seq(CapRequest) /\ RequestsInv' /\ ~(up' # <<>> /\ Head(up') = Cap!Bind)
<1>0. RequestsInv /\ up \in Seq(CapRequest)
  BY DEF CaptureInv, CapTypes
<1>1. /\ Tail(up) \in Seq(CapRequest) /\ Len(up) \in Nat /\ Len(Tail(up)) = Len(up) - 1
      /\ \A i \in 1 .. Len(up) - 1 : Tail(up)[i] = up[i + 1] /\ i + 1 \in 1 .. Len(up)
  BY <1>0, Shortened
<1>2. \A i \in 1 .. Len(up') : up'[i] = up[i + 1] /\ i + 1 \in 1 .. Len(up) /\ i + 1 > 1
  BY <1>1
<1>3. \A i \in 1 .. Len(up') : up'[i] # Cap!Bind
  BY <1>0, <1>2 DEF RequestsInv
<1>4. \A j \in 1 .. Len(up') : up'[j].rq = "capture" =>
        /\ frames'[up'[j].of] = None
        /\ \A i \in 1 .. Len(up') : i < j => up'[i].of # up'[j].of
  <2> SUFFICES ASSUME NEW j \in 1 .. Len(up'), up'[j].rq = "capture"
               PROVE  /\ frames'[up'[j].of] = None
                      /\ \A i \in 1 .. Len(up') : i < j => up'[i].of # up'[j].of
    OBVIOUS
  <2>1. up'[j] = up[j + 1] /\ j + 1 \in 1 .. Len(up) /\ j + 1 > 1
    BY <1>2
  <2>2. frames'[up'[j].of] = None
    BY <2>1
  <2>3. ASSUME NEW i \in 1 .. Len(up'), i < j PROVE up'[i].of # up'[j].of
    <3>1. up'[i] = up[i + 1] /\ i + 1 \in 1 .. Len(up) /\ i + 1 < j + 1
      BY <1>2, <2>3
    <3>2. up[i + 1] # Cap!Bind
      BY <1>3, <2>3, <3>1
    <3> QED BY <1>0, <2>1, <3>1, <3>2 DEF RequestsInv
  <2> QED BY <2>2, <2>3
<1>5. \A i \in 1 .. Len(up') : up'[i].rq = "destroy" => asked'[up'[i].of] = None
  BY <1>0, <1>2 DEF RequestsInv
<1>6. \A i \in 1 .. Len(up') : up'[i].rq = "drop" => window'[up'[i].of] = "gone"
  BY <1>0, <1>2 DEF RequestsInv
<1>7. RequestsInv'
  BY <1>3, <1>4, <1>5, <1>6 DEF RequestsInv
<1>8. up' # <<>> => Head(up') # Cap!Bind
  <2> SUFFICES ASSUME up' # <<>> PROVE Head(up') # Cap!Bind
    OBVIOUS
  <2>1. Head(up') = up'[1] /\ 1 \in 1 .. Len(up')
    BY <1>1, Shortened
  <2> QED BY <1>3, <2>1
<1> QED BY <1>1, <1>7, <1>8

\* Requests that are no captures follow.
LEMMA RequestsFollow ==
  ASSUME CaptureInv, NEW s \in Seq(CapRequest), up' = up \o s,
         \A r \in Items(s) :
           /\ r.rq \in {"copy", "destroy", "drop"}
           /\ r.rq = "destroy" => asked'[r.of] = None
           /\ r.rq = "drop" => window'[r.of] = "gone",
         \A f \in CaptureFrames : asked[f] = None => asked'[f] = None,
         window' = window, frames' = frames
  PROVE  up' \in Seq(CapRequest) /\ RequestsInv' /\ (up = <<>> => (up' = <<>> \/ Head(up') # Cap!Bind))
         /\ (up # <<>> => up' # <<>> /\ Head(up') = Head(up))
<1>0. RequestsInv /\ up \in Seq(CapRequest) /\ frames \in FramesType
  BY DEF CaptureInv, CapTypes
<1> DEFINE q == up \o s
<1>1. /\ q \in Seq(CapRequest) /\ Len(up) \in Nat /\ Len(s) \in Nat /\ Len(q) = Len(up) + Len(s)
      /\ \A i \in 1 .. Len(up) : q[i] = up[i]
      /\ \A i \in 1 .. Len(q) :
           \/ i \in 1 .. Len(up) /\ q[i] = up[i]
           \/ i - Len(up) \in 1 .. Len(s) /\ q[i] = s[i - Len(up)]
  BY <1>0, Joined
<1> HIDE DEF q
<1>2. \A i \in 1 .. Len(s) : s[i] \in Items(s)
  BY DEF Items
<1>3. \A i \in 1 .. Len(q) :
        \/ i \in 1 .. Len(up) /\ q[i] = up[i]
        \/ i > Len(up) /\ q[i] \in Items(s)
  <2> SUFFICES ASSUME NEW i \in 1 .. Len(q), ~(i \in 1 .. Len(up) /\ q[i] = up[i])
               PROVE  i > Len(up) /\ q[i] \in Items(s)
    OBVIOUS
  <2>1. i - Len(up) \in 1 .. Len(s) /\ q[i] = s[i - Len(up)]
    BY <1>1
  <2>2. i > Len(up)
    BY <1>1, <2>1
  <2> QED BY <1>2, <2>1, <2>2
<1>b. Cap!Bind.rq = "bind"
  BY DEF Cap!Bind
<1>4. \A i \in 1 .. Len(q) : i > 1 => q[i] # Cap!Bind
  <2> SUFFICES ASSUME NEW i \in 1 .. Len(q), i > 1 PROVE q[i] # Cap!Bind
    OBVIOUS
  <2>1. CASE i \in 1 .. Len(up) /\ q[i] = up[i]
    BY <1>0, <2>1 DEF RequestsInv
  <2>2. CASE q[i] \in Items(s)
    BY <1>b, <2>2
  <2> QED BY <1>3, <2>1, <2>2
<1>5. \A j \in 1 .. Len(q) : q[j].rq = "capture" => j \in 1 .. Len(up) /\ q[j] = up[j]
  BY <1>3
<1>6. \A j \in 1 .. Len(q) : q[j].rq = "capture" =>
        /\ frames[q[j].of] = None
        /\ \A i \in 1 .. Len(q) : i < j => q[i] = Cap!Bind \/ q[i].of # q[j].of
  <2> SUFFICES ASSUME NEW j \in 1 .. Len(q), q[j].rq = "capture"
               PROVE  /\ frames[q[j].of] = None
                      /\ \A i \in 1 .. Len(q) : i < j => q[i] = Cap!Bind \/ q[i].of # q[j].of
    OBVIOUS
  <2>1. j \in 1 .. Len(up) /\ q[j] = up[j]
    BY <1>5
  <2>2. frames[q[j].of] = None
    BY <1>0, <2>1 DEF RequestsInv
  <2>3. ASSUME NEW i \in 1 .. Len(q), i < j PROVE q[i] = Cap!Bind \/ q[i].of # q[j].of
    <3>1. i \in 1 .. Len(up) /\ q[i] = up[i]
      BY <1>1, <2>1, <2>3
    <3>2. up[j].rq = "capture"
      BY <2>1
    <3> QED BY <1>0, <2>1, <2>3, <3>1, <3>2 DEF RequestsInv
  <2> QED BY <2>2, <2>3
<1>7. \A i \in 1 .. Len(up) : up[i].rq = "destroy" => up[i].of \in CaptureFrames
  <2>1. \A i \in 1 .. Len(up) : up[i] \in CapRequest
    BY <1>0
  <2>2. \A r \in CapRequest : r.rq = "destroy" => r.of \in CaptureFrames
    BY <1>b DEF CapRequest
  <2> QED BY <2>1, <2>2
<1>8. \A i \in 1 .. Len(q) : q[i].rq = "destroy" => asked'[q[i].of] = None
  <2> SUFFICES ASSUME NEW i \in 1 .. Len(q), q[i].rq = "destroy" PROVE asked'[q[i].of] = None
    OBVIOUS
  <2>1. CASE i \in 1 .. Len(up) /\ q[i] = up[i]
    BY <1>0, <1>7, <2>1 DEF RequestsInv
  <2>2. CASE q[i] \in Items(s)
    BY <2>2
  <2> QED BY <1>3, <2>1, <2>2
<1>9. \A i \in 1 .. Len(q) : q[i].rq = "drop" => window'[q[i].of] = "gone"
  <2> SUFFICES ASSUME NEW i \in 1 .. Len(q), q[i].rq = "drop" PROVE window'[q[i].of] = "gone"
    OBVIOUS
  <2>1. CASE i \in 1 .. Len(up) /\ q[i] = up[i]
    BY <1>0, <2>1 DEF RequestsInv
  <2>2. CASE q[i] \in Items(s)
    BY <2>2
  <2> QED BY <1>3, <2>1, <2>2
<1>10. RequestsInv'
  BY <1>4, <1>6, <1>8, <1>9 DEF RequestsInv, q
<1>11. up # <<>> => q # <<>> /\ Head(q) = Head(up)
  <2> SUFFICES ASSUME up # <<>> PROVE q # <<>> /\ Head(q) = Head(up)
    OBVIOUS
  <2>1. Head(up) = up[1] /\ 1 \in 1 .. Len(up)
    BY <1>0, Shortened
  <2>2. q # <<>> /\ q[1] = up[1] /\ Len(q) >= 1
    BY <1>1, <2>1
  <2>3. Head(q) = q[1]
    BY <1>1, <2>2, Shortened
  <2> QED BY <2>1, <2>2, <2>3
<1>12. up = <<>> => (q = <<>> \/ Head(q) # Cap!Bind)
  <2> SUFFICES ASSUME up = <<>>, q # <<>> PROVE Head(q) # Cap!Bind
    OBVIOUS
  <2>1. Head(q) = q[1] /\ 1 \in 1 .. Len(q)
    BY <1>1, Shortened
  <2>2. Len(up) = 0
    OBVIOUS
  <2>3. q[1] \in Items(s)
    BY <1>3, <2>1, <2>2
  <2> QED BY <1>b, <2>1, <2>3
<1> QED BY <1>1, <1>10, <1>11, <1>12 DEF q

-----------------------------------------------------------------------------
(* Events. *)

LEMMA EventsJoined ==
  ASSUME NEW q \in Seq(CapEvent), NEW s \in Seq(CapEvent)
  PROVE  q \o s \in Seq(CapEvent) /\ Items(q \o s) = Items(q) \cup Items(s)
<1>1. q \o s \in Seq(CapEvent)
  BY Joined
<1> QED BY <1>1, ItemsJoined

LEMMA ShownFirstJoined ==
  ASSUME NEW q \in Seq(CapEvent), NEW s \in Seq(CapEvent), ShownFirst(q), ShownFirst(s),
         \A w \in CaptureWindows : ~(Closes(w) \in Items(q) /\ Shows(w) \in Items(s))
  PROVE  ShownFirst(q \o s)
<1> DEFINE r == q \o s
<1>1. /\ Len(q) \in Nat /\ Len(s) \in Nat /\ Len(r) = Len(q) + Len(s)
      /\ \A i \in 1 .. Len(r) :
           \/ i \in 1 .. Len(q) /\ r[i] = q[i]
           \/ i - Len(q) \in 1 .. Len(s) /\ r[i] = s[i - Len(q)]
  BY Joined
<1> HIDE DEF r
<1> SUFFICES ASSUME NEW i \in 1 .. Len(r), NEW j \in 1 .. Len(r), NEW w \in CaptureWindows,
                    r[i] = Shows(w), r[j] = Closes(w)
             PROVE  i < j
  BY DEF ShownFirst, r
<1>2. CASE i \in 1 .. Len(q) /\ r[i] = q[i] /\ j \in 1 .. Len(q) /\ r[j] = q[j]
  BY <1>2 DEF ShownFirst
<1>3. CASE i \in 1 .. Len(q) /\ j - Len(q) \in 1 .. Len(s)
  BY <1>1, <1>3
<1>4. CASE i - Len(q) \in 1 .. Len(s) /\ r[i] = s[i - Len(q)] /\ j \in 1 .. Len(q) /\ r[j] = q[j]
  BY <1>4 DEF Items
<1>5. CASE i - Len(q) \in 1 .. Len(s) /\ r[i] = s[i - Len(q)] /\ j - Len(q) \in 1 .. Len(s) /\ r[j] = s[j - Len(q)]
  <2>1. i - Len(q) < j - Len(q)
    BY <1>5 DEF ShownFirst
  <2> QED BY <1>1, <2>1
<1> QED BY <1>1, <1>2, <1>3, <1>4, <1>5

LEMMA ShownFirstShortened ==
  ASSUME NEW q \in Seq(CapEvent), q # <<>>, ShownFirst(q)
  PROVE  /\ ShownFirst(Tail(q))
         /\ \A w \in CaptureWindows : Head(q) = Closes(w) => Shows(w) \notin Items(Tail(q))
<1>1. /\ Len(q) \in Nat /\ Len(q) >= 1 /\ Len(Tail(q)) = Len(q) - 1 /\ Head(q) = q[1] /\ 1 \in 1 .. Len(q)
      /\ \A i \in 1 .. Len(q) - 1 : Tail(q)[i] = q[i + 1] /\ i + 1 \in 1 .. Len(q)
  BY Shortened
<1>2. ShownFirst(Tail(q))
  <2> SUFFICES ASSUME NEW i \in 1 .. Len(q) - 1, NEW j \in 1 .. Len(q) - 1, NEW w \in CaptureWindows,
                      q[i + 1] = Shows(w), q[j + 1] = Closes(w)
               PROVE  i < j
    BY <1>1 DEF ShownFirst
  <2>1. i + 1 < j + 1
    BY <1>1 DEF ShownFirst
  <2> QED BY <1>1, <2>1
<1>3. ASSUME NEW w \in CaptureWindows, Head(q) = Closes(w), Shows(w) \in Items(Tail(q)) PROVE FALSE
  <2>1. PICK i \in 1 .. Len(q) - 1 : Shows(w) = q[i + 1]
    BY <1>1, <1>3 DEF Items
  <2>2. i + 1 \in 1 .. Len(q) /\ ~(i + 1 < 1)
    BY <1>1
  <2> QED BY <1>1, <1>3, <2>1, <2>2 DEF ShownFirst
<1> QED BY <1>2, <1>3

LEMMA EventKinds ==
  /\ Cap!Done.ev = "done" /\ Cap!Done \in CapEvent
  /\ \A w \in CaptureWindows :
       /\ Shows(w) \in CapEvent /\ Shows(w).ev = "toplevel" /\ Shows(w).of = w
       /\ Closes(w) \in CapEvent /\ Closes(w).ev = "closed" /\ Closes(w).of = w
  /\ \A f \in CaptureFrames, k \in {"buffer", "failed", "ready"} :
       Cap!Event(k, f) \in CapEvent /\ Cap!Event(k, f).ev = k /\ Cap!Event(k, f).of = f
BY DEF Cap!Done, Shows, Closes, Cap!Event, CapEvent

\* Events that close no window are in order, among themselves.
LEMMA ShownFirstOpen ==
  ASSUME NEW q \in Seq(CapEvent), \A w \in CaptureWindows : Closes(w) \notin Items(q)
  PROVE  ShownFirst(q)
BY DEF ShownFirst, Items

\* The announcement of some windows.
Announce(q, ws) == q \o Cap!SetToSeq({Cap!Event("toplevel", w) : w \in ws}) \o <<Cap!Done>>

LEMMA AnnouncedDown ==
  ASSUME PartnersAssumption, NEW ws \in SUBSET CaptureWindows, NEW q \in Seq(CapEvent), ShownFirst(q),
         \A w \in ws : Closes(w) \notin Items(q)
  PROVE  /\ Announce(q, ws) \in Seq(CapEvent) /\ ShownFirst(Announce(q, ws))
         /\ Items(Announce(q, ws)) = Items(q) \cup {Shows(w) : w \in ws} \cup {Cap!Done}
         /\ \A f \in CaptureFrames : /\ Never(q, f) => Never(Announce(q, ws), f)
                                     /\ Once(q, f) => Once(Announce(q, ws), f)
<1> DEFINE S == {Cap!Event("toplevel", w) : w \in ws}
           s == Cap!SetToSeq(S)
           t == q \o s
           d == <<Cap!Done>>
<1>1. S = {Shows(w) : w \in ws}
  BY DEF Shows
<1>2. IsFiniteSet(S)
  <2>1. IsFiniteSet(ws)
    BY FS_Subset DEF PartnersAssumption
  <2> DEFINE g == [w \in ws |-> Cap!Event("toplevel", w)]
  <2>2. g \in Surjection(ws, S)
    BY DEF Surjection
  <2> QED BY <2>1, <2>2, FS_Surjection
<1>3. s \in Seq(S) /\ Items(s) = S
  BY <1>2, ItemsEnumerated
<1> HIDE DEF s, S
<1>4. S \subseteq CapEvent
  <2>1. \A w \in ws : Shows(w) \in CapEvent
    BY EventKinds
  <2> QED BY <1>1, <2>1
<1>5. s \in Seq(CapEvent)
  BY <1>3, <1>4, Widened
<1>6. t \in Seq(CapEvent) /\ Items(t) = Items(q) \cup S
  BY <1>3, <1>5, Joined, ItemsJoined
<1>7. d \in Seq(CapEvent) /\ Items(d) = {Cap!Done}
  BY EventKinds, ItemsOne
<1>8. \A w \in CaptureWindows : Closes(w) \notin S /\ Closes(w) \notin {Cap!Done} /\ Shows(w) \notin {Cap!Done}
  BY <1>1, EventKinds
<1>9. ShownFirst(s) /\ ShownFirst(d)
  BY <1>3, <1>5, <1>7, <1>8, ShownFirstOpen
<1>10. \A w \in CaptureWindows : Shows(w) \in S => w \in ws
  BY <1>1, EventKinds
<1>11. ShownFirst(t)
  BY <1>3, <1>5, <1>9, <1>10, ShownFirstJoined
<1>12. \A f \in CaptureFrames : Never(s, f) /\ Never(d, f)
  <2> SUFFICES ASSUME NEW f \in CaptureFrames PROVE Never(s, f) /\ Never(d, f)
    OBVIOUS
  <2>1. \A e \in S \cup {Cap!Done} : ~IsEnd(e, f)
    BY <1>1, EventKinds DEF IsEnd
  <2> QED BY <1>3, <1>5, <1>7, <2>1, NeverItems
<1> HIDE DEF t, d
<1>13. ShownFirst(t \o d)
  BY <1>6, <1>7, <1>8, <1>9, <1>11, ShownFirstJoined
<1>14. t \o d \in Seq(CapEvent) /\ Items(t \o d) = Items(q) \cup S \cup {Cap!Done}
  BY <1>6, <1>7, Joined, ItemsJoined
<1>15. \A f \in CaptureFrames : (Never(q, f) => Never(t, f)) /\ (Once(q, f) => Once(t, f))
  BY <1>5, <1>12, NeverJoined, OnceJoined DEF t
<1>16. \A f \in CaptureFrames : (Never(t, f) => Never(t \o d, f)) /\ (Once(t, f) => Once(t \o d, f))
  BY <1>6, <1>7, <1>12, NeverJoined, OnceJoined
<1>17. Announce(q, ws) = t \o d
  BY DEF t, d, s, S, Announce
<1>18. Items(t \o d) = Items(q) \cup {Shows(w) : w \in ws} \cup {Cap!Done}
  BY <1>1, <1>14
<1>19. \A f \in CaptureFrames : (Never(q, f) => Never(t \o d, f)) /\ (Once(q, f) => Once(t \o d, f))
  <2> SUFFICES ASSUME NEW f \in CaptureFrames
               PROVE  /\ Never(q, f) => Never(t \o d, f)
                      /\ Once(q, f) => Once(t \o d, f)
    OBVIOUS
  <2> QED BY <1>15, <1>16
<1> QED BY <1>13, <1>14, <1>17, <1>18, <1>19

\* An event of a frame follows: no window is shown or closed by it.
LEMMA FrameEventFollows ==
  ASSUME NEW q \in Seq(CapEvent), ShownFirst(q), NEW f \in CaptureFrames,
         NEW k, k \in {"buffer", "failed", "ready"}
  PROVE  LET r == Append(q, Cap!Event(k, f))
         IN /\ r \in Seq(CapEvent) /\ ShownFirst(r)
            /\ \A w \in CaptureWindows : /\ Shows(w) \in Items(r) <=> Shows(w) \in Items(q)
                                         /\ Closes(w) \in Items(r) <=> Closes(w) \in Items(q)
            /\ \A g \in CaptureFrames :
                 g # f \/ k = "buffer" => /\ Never(q, g) => Never(r, g)
                                          /\ Once(q, g) => Once(r, g)
            /\ k # "buffer" /\ Never(q, f) => Once(r, f)
<1> DEFINE e == Cap!Event(k, f)
<1>1. e \in CapEvent /\ e.ev = k /\ e.of = f
  BY EventKinds
<1> HIDE DEF e
<1>2. Append(q, e) = q \o <<e>> /\ <<e>> \in Seq(CapEvent) /\ Items(<<e>>) = {e}
  BY <1>1, Added1, ItemsOne
<1>3. Append(q, e) \in Seq(CapEvent) /\ Items(Append(q, e)) = Items(q) \cup {e}
  <2>1. q \o <<e>> \in Seq(CapEvent)
    BY <1>2, Joined
  <2>2. Items(q \o <<e>>) = Items(q) \cup Items(<<e>>)
    <3> DEFINE last == <<e>>
    <3>1. last \in Seq(CapEvent) /\ q \in Seq(CapEvent)
      BY <1>2
    <3> HIDE DEF last
    <3>2. Items(q \o last) = Items(q) \cup Items(last)
      BY ONLY <3>1, ItemsJoined
    <3> QED BY <3>2 DEF last
  <2> QED BY <1>2, <2>1, <2>2
<1>4. \A w \in CaptureWindows : Shows(w) # e /\ Closes(w) # e
  BY <1>1, EventKinds
<1>5. ShownFirst(<<e>>)
  BY <1>2, <1>4, ShownFirstOpen
<1>6. ShownFirst(Append(q, e))
  BY <1>2, <1>4, <1>5, ShownFirstJoined
<1>7. \A g \in CaptureFrames : g # f \/ k = "buffer" => Never(<<e>>, g)
  BY <1>1, <1>2, NeverItems DEF IsEnd
<1>8. \A g \in CaptureFrames :
        g # f \/ k = "buffer" => /\ Never(q, g) => Never(Append(q, e), g)
                                 /\ Once(q, g) => Once(Append(q, e), g)
  <2> SUFFICES ASSUME NEW g \in CaptureFrames, g # f \/ k = "buffer"
               PROVE  /\ Never(q, g) => Never(q \o <<e>>, g)
                      /\ Once(q, g) => Once(q \o <<e>>, g)
    BY <1>2
  <2>1. Never(<<e>>, g)
    BY <1>7
  <2>2. Never(q, g) => Never(q \o <<e>>, g)
    BY <1>2, <2>1, NeverJoined
  <2>3. Once(q, g) => Once(q \o <<e>>, g)
    BY <1>2, <2>1, OnceJoined
  <2> QED BY <2>2, <2>3
<1>9. k # "buffer" /\ Never(q, f) => Once(Append(q, e), f)
  BY <1>1, <1>2, OnceOne, OnceJoined DEF IsEnd
<1> QED BY <1>3, <1>4, <1>6, <1>8, <1>9 DEF e

-----------------------------------------------------------------------------
(* The steps. *)

LEMMA RequestKinds ==
  /\ Cap!Bind.rq = "bind"
  /\ \A r \in CapRequest :
       /\ r.rq \in {"capture", "copy", "destroy"} => r.of \in CaptureFrames
       /\ r.rq = "capture" => r.target \in Targets
       /\ r.rq = "drop" => r.of \in CaptureWindows
BY DEF Cap!Bind, CapRequest

LEMMA EventSorts ==
  \A e \in CapEvent :
    \/ e = Cap!Done
    \/ \E w \in CaptureWindows : e = Shows(w) \/ e = Closes(w)
    \/ \E f \in CaptureFrames, k \in {"buffer", "failed", "ready"} : e = Cap!Event(k, f)
<1> SUFFICES ASSUME NEW e \in CapEvent, e # Cap!Done
             PROVE  \/ \E w \in CaptureWindows : e = Shows(w) \/ e = Closes(w)
                    \/ \E f \in CaptureFrames, k \in {"buffer", "failed", "ready"} : e = Cap!Event(k, f)
  OBVIOUS
<1>1. CASE e \in [ev : {"toplevel", "closed"}, of : CaptureWindows]
  <2>1. e.of \in CaptureWindows /\ (e = Shows(e.of) \/ e = Closes(e.of))
    BY <1>1 DEF Shows, Closes, Cap!Event
  <2> QED BY <2>1
<1>2. CASE e \in [ev : {"buffer", "failed", "ready"}, of : CaptureFrames]
  <2>1. e.of \in CaptureFrames /\ e.ev \in {"buffer", "failed", "ready"} /\ e = Cap!Event(e.ev, e.of)
    BY <1>2 DEF Cap!Event
  <2> QED BY <2>1
<1> QED BY <1>1, <1>2 DEF CapEvent

\* Without a connection the child's process may come and go.
LEMMA ChildStep ==
  ASSUME CaptureInv, UNCHANGED <<v2, capWire>>, child' \in ChildType, ProcessInv',
         ~Live, ~Live', child'.conn = child.conn
  PROVE  CaptureInv'
<1>1. CapTypes' /\ EndedInv' /\ RequestsInv' /\ HandleInv' /\ EndsInv' /\ UnboundInv' /\ ClosedInv'
  BY DEF CaptureInv, CapTypes, EndedInv, RequestsInv, HandleInv, EndsInv, UnboundInv, ClosedInv, capWire
<1>2. KnownInv'
  BY DEF KnownInv
<1> QED BY <1>1, <1>2 DEF CaptureInv

\* close_channel() with what goes before it.
LEMMA CloseChannelStep ==
  ASSUME PartnersAssumption, CaptureInv, NEW c \in ChildType, Cap!CloseChannel(c), window' = window,
         c.wanted => c.proc # "none" \/ c.timer, c.timer => c.proc = "none" /\ c.wanted
  PROVE  CaptureInv'
<1>1. /\ child' = [c EXCEPT !.chan = FALSE, !.conn = FALSE]
      /\ handles' = NoWindows /\ frames' = NoFrames /\ up' = <<>> /\ down' = <<>>
      /\ known' = NoWindows /\ asked' = NoFrames
  BY ClearedIs DEF Cap!CloseChannel, Cap!Closed, Cap!Set
<1>2. /\ child' \in ChildType /\ child'.proc = c.proc /\ child'.timer = c.timer
      /\ child'.wanted = c.wanted /\ ~child'.chan /\ ~child'.conn
  BY <1>1 DEF ChildType
<1>3. ProcessInv'
  BY <1>2 DEF ProcessInv
<1>4. window' \in [CaptureWindows -> {"new", "open", "gone"}]
  BY DEF CaptureInv, CapTypes
<1> QED BY <1>1, <1>2, <1>3, <1>4, ClosedStep

LEMMA ClientDestroyedStep ==
  ASSUME PartnersAssumption, CaptureInv, Cap!ClientDestroyed PROVE CaptureInv'
<1>1. child \in ChildType /\ ProcessInv
  BY DEF CaptureInv, CapTypes
<1>2. Cap!CloseChannel(child) /\ window' = window
  BY DEF Cap!ClientDestroyed
<1> QED BY <1>1, <1>2, CloseChannelStep DEF ProcessInv

LEMMA ProcessSteps ==
  ASSUME PartnersAssumption, CaptureInv,
         \/ Cap!Spawn \/ Cap!RestartTimer \/ Cap!ChildExits \/ Cap!OtherChildExits
         \/ Cap!ConnectionLost \/ Cap!HangUp \/ Cap!Attach \/ Cap!ChildExited \/ Cap!Shutdown
  PROVE  CaptureInv'
<1>0. child \in ChildType /\ ProcessInv /\ EndedInv /\ CapTypes
  BY DEF CaptureInv, CapTypes
<1>1. CASE Cap!Spawn
  <2>1. /\ ~child.wanted /\ child.proc = "none" /\ UNCHANGED <<v2, capWire>>
        /\ \/ child' = [[child EXCEPT !.wanted = TRUE] EXCEPT !.proc = "running", !.chan = TRUE]
           \/ child' = [child EXCEPT !.wanted = TRUE, !.chan = TRUE, !.proc = "exited"]
    BY <1>1 DEF Cap!Spawn, Cap!Started, Cap!wireVars, capWire
  <2>2. ~child.conn /\ ~child.timer
    BY <1>0, <2>1 DEF ProcessInv
  <2>3. /\ child' \in ChildType /\ child'.conn = child.conn /\ child'.timer = child.timer
        /\ child'.proc # "none"
    BY ZenonT(30), <1>0, <2>1 DEF ChildType
  <2>4. ProcessInv' /\ ~Live /\ ~Live'
    BY <2>2, <2>3 DEF ProcessInv, Live
  <2> QED BY <2>1, <2>3, <2>4, ChildStep
<1>2. CASE Cap!RestartTimer
  <2>1. child.timer /\ UNCHANGED <<v2, capWire>>
    BY <1>2 DEF Cap!RestartTimer, Cap!wireVars, capWire
  <2>2. child.proc = "none" /\ ~child.chan /\ ~child.conn /\ child.wanted
    BY <1>0, <2>1 DEF ProcessInv
  <2>3. CASE child' = Cap!Started([child EXCEPT !.timer = FALSE])
    <3>1. /\ child' \in ChildType /\ child'.conn = child.conn /\ child'.timer = FALSE
          /\ child'.proc = "running"
      BY <1>0, <2>3 DEF ChildType, Cap!Started
    <3>2. ProcessInv' /\ ~Live /\ ~Live'
      BY <2>2, <3>1 DEF ProcessInv, Live
    <3> QED BY <2>1, <3>1, <3>2, ChildStep
  <2>4. CASE child' = Cap!Scheduled([child EXCEPT !.timer = FALSE])
    <3>1. /\ child' \in ChildType /\ child'.conn = child.conn /\ child'.timer = TRUE
          /\ child'.proc = "none" /\ child'.chan = FALSE /\ child'.wanted = TRUE
      BY <1>0, <2>2, <2>4 DEF ChildType, Cap!Scheduled
    <3>2. ProcessInv' /\ ~Live /\ ~Live'
      BY <2>2, <3>1 DEF ProcessInv, Live
    <3> QED BY <2>1, <3>1, <3>2, ChildStep
  <2> QED BY <1>2, <2>3, <2>4 DEF Cap!RestartTimer
<1>3. CASE Cap!ChildExits
  <2>1. /\ child.proc = "running" /\ child' = [child EXCEPT !.proc = "exited", !.sig = TRUE]
        /\ handles' = handles /\ frames' = frames /\ window' = window
        /\ up' = <<>> /\ down' = <<>> /\ known' = NoWindows /\ asked' = NoFrames
    BY <1>3, ClearedIs DEF Cap!ChildExits, Cap!Set, Cap!Here
  <2>2. /\ child' \in ChildType /\ child'.conn = child.conn /\ child'.timer = child.timer
        /\ child'.chan = child.chan /\ child'.wanted = child.wanted /\ child'.proc = "exited"
    BY <1>0, <2>1 DEF ChildType
  <2>3. ProcessInv' /\ ~Live'
    BY <1>0, <2>1, <2>2 DEF ProcessInv, Live
  <2>4. EndedInv' /\ CapTypes'
    BY <1>0, <2>1, <2>2, NothingTyped DEF EndedInv, CapTypes
  <2>5. RequestsInv' /\ UnboundInv' /\ KnownInv'
    BY <2>1, <2>3 DEF RequestsInv, UnboundInv, KnownInv
  <2>6. HandleInv' /\ EndsInv'
    BY <2>1, CapNone DEF CaptureInv, HandleInv, EndsInv, NoWindows, NoFrames
  <2>7. ClosedInv'
    BY <2>1, ItemsNone DEF ClosedInv, ShownFirst
  <2> QED BY <2>3, <2>4, <2>5, <2>6, <2>7 DEF CaptureInv
<1>4. CASE Cap!OtherChildExits
  <2>1. child.proc = "exited" /\ child' = [child EXCEPT !.sig = TRUE] /\ UNCHANGED <<v2, capWire>>
    BY <1>4 DEF Cap!OtherChildExits, Cap!wireVars, capWire
  <2>2. /\ child' \in ChildType /\ child'.conn = child.conn /\ child'.timer = child.timer
        /\ child'.chan = child.chan /\ child'.wanted = child.wanted /\ child'.proc = "exited"
    BY <1>0, <2>1 DEF ChildType
  <2>3. ProcessInv' /\ ~Live /\ ~Live'
    BY <1>0, <2>1, <2>2 DEF ProcessInv, Live
  <2> QED BY <2>1, <2>2, <2>3, ChildStep
<1>5. CASE Cap!ConnectionLost
  BY <1>5, ClientDestroyedStep DEF Cap!ConnectionLost
<1>6. CASE Cap!HangUp
  BY <1>0, <1>6, CloseChannelStep DEF Cap!HangUp, ProcessInv
<1>7. CASE Cap!Attach
  <2>1. child.chan /\ child.proc = "running" /\ ~child.conn /\ window' = window
    BY <1>7 DEF Cap!Attach
  <2>2. CASE Cap!CloseChannel(child)
    BY <1>0, <2>1, <2>2, CloseChannelStep DEF ProcessInv
  <2>3. CASE child' = [child EXCEPT !.conn = TRUE] /\ Cap!Set([Cap!Cleared EXCEPT !.up = <<Cap!Bind>>])
    <3>1. /\ handles' = NoWindows /\ frames' = NoFrames /\ up' = <<Cap!Bind>> /\ down' = <<>>
          /\ known' = NoWindows /\ asked' = NoFrames
      BY <2>3 DEF Cap!Set, Cap!Cleared, NoWindows, NoFrames
    <3>2. /\ child' \in ChildType /\ child'.conn = TRUE /\ child'.timer = child.timer
          /\ child'.chan = child.chan /\ child'.wanted = child.wanted /\ child'.proc = "running"
      BY <1>0, <2>1, <2>3 DEF ChildType
    <3>3. ProcessInv' /\ Live'
      BY <1>0, <2>1, <3>2 DEF ProcessInv, Live
    <3>4. CapTypes' /\ EndedInv'
      BY <1>0, <2>1, <3>1, <3>2, <3>3, NothingTyped DEF CapTypes, EndedInv
    <3>5. Len(up') = 1 /\ up'[1] = Cap!Bind /\ Head(up') = Cap!Bind /\ up' # <<>>
      BY <3>1
    <3>6. RequestsInv'
      BY <3>5, RequestKinds DEF RequestsInv
    <3>7. HandleInv' /\ EndsInv'
      BY <3>1, CapNone DEF HandleInv, EndsInv, NoWindows, NoFrames
    <3>8. ClosedInv'
      BY <3>1, ItemsNone DEF ClosedInv, ShownFirst
    <3>9. UnboundInv' /\ KnownInv'
      BY <3>1, <3>5 DEF UnboundInv, KnownInv, Cap!Bound
    <3> QED BY <3>3, <3>4, <3>6, <3>7, <3>8, <3>9 DEF CaptureInv
  <2> QED BY <1>7, <2>2, <2>3 DEF Cap!Attach
<1>8. CASE Cap!ChildExited
  <2> DEFINE c == Cap!Scheduled([child EXCEPT !.proc = "none", !.sig = FALSE])
  <2>1. c \in ChildType /\ c.proc = "none" /\ c.timer = c.wanted
    BY <1>0 DEF Cap!Scheduled, ChildType
  <2>2. Cap!CloseChannel(c) /\ window' = window
    BY <1>8 DEF Cap!ChildExited
  <2> HIDE DEF c
  <2> QED BY <2>1, <2>2, CloseChannelStep
<1>9. CASE Cap!Shutdown
  <2> DEFINE c == [child EXCEPT !.proc = "none", !.sig = FALSE, !.timer = FALSE, !.wanted = FALSE]
  <2>1. c \in ChildType /\ c.timer = FALSE /\ c.wanted = FALSE
    BY <1>0 DEF ChildType
  <2>2. Cap!CloseChannel(c) /\ window' = window
    BY <1>9 DEF Cap!Shutdown
  <2> HIDE DEF c
  <2> QED BY <2>1, <2>2, CloseChannelStep
<1> QED BY <1>1, <1>2, <1>3, <1>4, <1>5, <1>6, <1>7, <1>8, <1>9

LEMMA WindowGoneStep ==
  ASSUME PartnersAssumption, CaptureInv, NEW w \in CaptureWindows, Cap!WindowGone(w) PROVE CaptureInv'
<1>n. None \notin {"open", "closed"} /\ Screen \notin CaptureWindows
  BY CapNone
<1>i. /\ CapTypes /\ ProcessInv /\ EndedInv /\ RequestsInv /\ HandleInv /\ EndsInv /\ UnboundInv
      /\ ClosedInv /\ KnownInv
  BY DEF CaptureInv
<1>0. window[w] = "open" /\ window' = [window EXCEPT ![w] = "gone"] /\ child' = child
  BY DEF Cap!WindowGone
<1>1. /\ window' \in [CaptureWindows -> {"new", "open", "gone"}] /\ window'[w] = "gone"
      /\ \A v \in CaptureWindows : v # w => window'[v] = window[v]
      /\ \A v \in CaptureWindows : window[v] = "gone" => window'[v] = "gone"
  BY <1>0, <1>i DEF CapTypes
<1>2. CASE handles[w] # "open"
  <2>1. UNCHANGED capWire
    BY <1>2 DEF Cap!WindowGone, Cap!wireVars, capWire
  <2>2. CapTypes' /\ ProcessInv' /\ EndedInv' /\ UnboundInv'
    BY <1>0, <1>1, <1>i, <2>1 DEF CapTypes, ProcessInv, EndedInv, UnboundInv, Live, capWire
  <2>3. RequestsInv'
    <3>1. \A i \in 1 .. Len(up) : up[i] \in CapRequest
      BY <1>i DEF CapTypes
    <3>2. \A i \in 1 .. Len(up) : up[i].rq = "drop" => up[i].of \in CaptureWindows
      BY <3>1, RequestKinds
    <3> QED BY <1>1, <1>i, <2>1, <3>2 DEF RequestsInv, capWire
  <2>4. HandleInv' /\ EndsInv' /\ ClosedInv'
    BY <1>1, <1>2, <1>i, <2>1 DEF HandleInv, EndsInv, ClosedInv, capWire
  <2>5. KnownInv'
    <3>1. ~(Live /\ Cap!Bound)
      BY <1>0, <1>2, <1>i DEF KnownInv
    <3>2. ~(Live /\ Cap!Bound)'
      BY <1>0, <2>1, <3>1 DEF Live, Cap!Bound, capWire
    <3> QED BY <3>2 DEF KnownInv
  <2> QED BY <2>2, <2>3, <2>4, <2>5 DEF CaptureInv
<1>3. CASE handles[w] = "open"
  <2> DEFINE failing == {f \in CaptureFrames : frames[f] # None /\ frames[f].target = w /\ ~frames[f].terminal}
             s == Cap!SetToSeq({Cap!Event("failed", f) : f \in failing})
             c == Append(down, Closes(w))
             t == c \o s
  <2> HIDE DEF t
  <2>1. /\ handles' = [handles EXCEPT ![w] = "closed"] /\ known' = known /\ asked' = asked /\ up' = up
        /\ frames' = [f \in CaptureFrames |-> IF f \in failing THEN [frames[f] EXCEPT !.terminal = TRUE] ELSE frames[f]]
        /\ down' = Append(down \o <<Closes(w)>> \o s, Cap!Done)
    BY ZenonT(30), <1>3 DEF Cap!WindowGone, Cap!Set, Cap!Lost, Cap!Here, Closes
  <2>2. failing \in SUBSET CaptureFrames /\ IsFiniteSet(CaptureFrames)
    BY DEF PartnersAssumption
  <2>3. /\ s \in Seq(CapEvent) /\ Items(s) = {Cap!Event("failed", f) : f \in failing}
        /\ \A f \in CaptureFrames : IF f \in failing THEN Once(s, f) ELSE Never(s, f)
    BY <2>2, OnceEach
  <2>f. /\ \A f \in failing : /\ f \in CaptureFrames /\ frames[f] # None /\ frames[f].target = w
                              /\ ~frames[f].terminal
        /\ \A f \in CaptureFrames \ failing : frames'[f] = frames[f]
        /\ \A f \in CaptureFrames : frames[f] # None /\ frames[f].target = w => f \in failing \/ frames[f].terminal
    BY <2>1
  <2> HIDE DEF s, failing
  <2>4. down \in Seq(CapEvent) /\ Closes(w) \in CapEvent
    BY <1>i, EventKinds DEF CapTypes
  <2>5. /\ <<Closes(w)>> \in Seq(CapEvent) /\ Items(<<Closes(w)>>) = {Closes(w)}
        /\ <<Cap!Done>> \in Seq(CapEvent) /\ Items(<<Cap!Done>>) = {Cap!Done}
    BY <2>4, EventKinds, ItemsOne
  <2>6. c = down \o <<Closes(w)>> /\ c \in Seq(CapEvent) /\ Items(c) = Items(down) \cup {Closes(w)}
    <3>1. c = down \o <<Closes(w)>>
      BY <2>4, Added1
    <3>2. down \o <<Closes(w)>> \in Seq(CapEvent)
      BY <2>4, <2>5, Joined
    <3>3. Items(down \o <<Closes(w)>>) = Items(down) \cup Items(<<Closes(w)>>)
      BY <2>4, <2>5, EventsJoined
    <3> QED BY <2>5, <3>1, <3>2, <3>3
  <2> HIDE DEF c
  <2>7. t \in Seq(CapEvent) /\ Items(t) = Items(c) \cup Items(s)
    BY <2>3, <2>6, EventsJoined DEF t
  <2>8. down' = t \o <<Cap!Done>>
    <3>1. down' = Append(t, Cap!Done)
      BY <2>1, <2>6 DEF t
    <3> QED BY <2>7, <3>1, EventKinds, Added1
  <2>9. down' \in Seq(CapEvent) /\ Items(down') = Items(t) \cup {Cap!Done}
    <3>1. t \o <<Cap!Done>> \in Seq(CapEvent)
      BY <2>5, <2>7, Joined
    <3>2. Items(t \o <<Cap!Done>>) = Items(t) \cup Items(<<Cap!Done>>)
      BY <2>5, <2>7, EventsJoined
    <3> QED BY <2>5, <2>8, <3>1, <3>2
  <2>10. Items(down') = Items(down) \cup {Closes(w), Cap!Done} \cup {Cap!Event("failed", f) : f \in failing}
    BY <2>3, <2>6, <2>7, <2>9
  <2>11. \A f \in failing : \A v \in CaptureWindows :
           Cap!Event("failed", f) # Shows(v) /\ Cap!Event("failed", f) # Closes(v)
    BY <2>f, EventKinds
  <2>12. \A v \in CaptureWindows :
           /\ Shows(v) \in Items(down') <=> Shows(v) \in Items(down)
           /\ Closes(v) \in Items(down') <=> Closes(v) \in Items(down) \/ v = w
    BY <2>10, <2>11, EventKinds
  <2>13. ShownFirst(down')
    <3>1. ShownFirst(<<Closes(w)>>)
      BY EventKinds DEF ShownFirst
    <3>2. \A v \in CaptureWindows : Shows(v) # Closes(w) /\ Shows(v) # Cap!Done /\ Closes(v) # Cap!Done
      BY EventKinds
    <3>3. ShownFirst(c)
      BY <1>i, <2>4, <2>5, <2>6, <3>1, <3>2, ShownFirstJoined DEF ClosedInv
    <3>4. \A v \in CaptureWindows : Shows(v) \notin Items(s) /\ Closes(v) \notin Items(s)
      BY <2>3, <2>11
    <3>5. ShownFirst(s)
      BY <2>3, <3>4, ShownFirstOpen
    <3>6. ShownFirst(t)
      BY <2>3, <2>6, <3>3, <3>4, <3>5, ShownFirstJoined DEF t
    <3>7. ShownFirst(<<Cap!Done>>)
      BY <2>5, <3>2, ShownFirstOpen
    <3> QED BY <2>5, <2>7, <2>8, <3>2, <3>6, <3>7, ShownFirstJoined
  <2>14. \A f \in CaptureFrames :
           /\ f \notin failing => (Never(down, f) => Never(down', f)) /\ (Once(down, f) => Once(down', f))
           /\ f \in failing => (Never(down, f) => Once(down', f))
    <3> SUFFICES ASSUME NEW f \in CaptureFrames
                 PROVE  /\ f \notin failing => (Never(down, f) => Never(down', f)) /\ (Once(down, f) => Once(down', f))
                        /\ f \in failing => (Never(down, f) => Once(down', f))
      OBVIOUS
    <3>1. Never(<<Closes(w)>>, f) /\ Never(<<Cap!Done>>, f)
      <4>1. ~IsEnd(Closes(w), f) /\ ~IsEnd(Cap!Done, f)
        BY EventKinds DEF IsEnd
      <4> QED BY <4>1, NeverOne
    <3>2. (Never(down, f) => Never(c, f)) /\ (Once(down, f) => Once(c, f))
      BY <2>4, <2>5, <2>6, <3>1, NeverJoined, OnceJoined
    <3>3. f \notin failing => (Never(c, f) => Never(t, f)) /\ (Once(c, f) => Once(t, f))
      BY <2>3, <2>6, NeverJoined, OnceJoined DEF t
    <3>4. f \in failing => (Never(c, f) => Once(t, f))
      BY <2>3, <2>6, OnceJoined DEF t
    <3>5. (Never(t, f) => Never(down', f)) /\ (Once(t, f) => Once(down', f))
      BY <2>5, <2>7, <2>8, <3>1, NeverJoined, OnceJoined
    <3> QED BY <3>2, <3>3, <3>4, <3>5
  <2>15. /\ frames' \in FramesType /\ \A f \in failing : frames'[f] # None /\ frames'[f].terminal
                                                         /\ frames'[f].target = frames[f].target
    <3>1. \A f \in CaptureFrames : frames[f] \in {None} \cup [target : Targets, terminal : BOOLEAN]
      BY <1>i DEF CapTypes, FramesType
    <3>2. \A f \in failing : frames'[f] = [frames[f] EXCEPT !.terminal = TRUE]
      BY <2>1, <2>f
    <3>3. \A f \in failing : /\ frames'[f] = [target |-> frames[f].target, terminal |-> TRUE]
                             /\ frames[f].target \in Targets
      BY <2>f, <3>1, <3>2
    <3>4. \A f \in failing : frames'[f] # None
      BY <3>3, CapNone
    <3>5. \A f \in CaptureFrames : frames'[f] \in {None} \cup [target : Targets, terminal : BOOLEAN]
      <4> SUFFICES ASSUME NEW f \in CaptureFrames
                   PROVE  frames'[f] \in {None} \cup [target : Targets, terminal : BOOLEAN]
        OBVIOUS
      <4>1. CASE f \in failing
        <5>1. frames[f].target \in Targets
          BY <3>3, <4>1
        <5>2. frames'[f] = [target |-> frames[f].target, terminal |-> TRUE]
          BY <3>3, <4>1
        <5> QED BY <5>1, <5>2
      <4>2. CASE f \notin failing
        BY <2>f, <3>1, <4>2
      <4> QED BY <4>1, <4>2
    <3>6. frames' = [f \in CaptureFrames |-> frames'[f]]
      BY <2>1
    <3>7. frames' \in FramesType
      BY <3>5, <3>6 DEF FramesType
    <3>8. \A f \in failing : frames'[f].terminal /\ frames'[f].target = frames[f].target
      <4> SUFFICES ASSUME NEW f \in failing
                   PROVE  frames'[f].terminal /\ frames'[f].target = frames[f].target
        OBVIOUS
      <4>1. frames'[f] = [target |-> frames[f].target, terminal |-> TRUE]
        BY <3>3
      <4> QED BY <4>1
    <3> QED BY <3>4, <3>7, <3>8
  <2>16. CapTypes'
    <3>1. handles' \in HandlesType
      BY <1>i, <2>1 DEF CapTypes, HandlesType
    <3> QED BY <1>0, <1>1, <1>i, <2>1, <2>9, <2>15, <3>1 DEF CapTypes
  <2>17. child.conn
    BY <1>3, <1>i, <1>n DEF EndedInv, NoWindows
  <2>18. ProcessInv' /\ EndedInv'
    BY <1>0, <1>i, <2>1, <2>17 DEF ProcessInv, EndedInv, Live
  <2>19. ~(up # <<>> /\ Head(up) = Cap!Bind)
    BY <1>3, <1>i, <1>n DEF UnboundInv, NoWindows
  <2>20. UnboundInv'
    BY <2>1, <2>19 DEF UnboundInv
  <2>21. RequestsInv'
    <3>1. \A i \in 1 .. Len(up) : up[i] \in CapRequest
      BY <1>i DEF CapTypes
    <3>2. \A i \in 1 .. Len(up) : /\ up[i].rq = "drop" => up[i].of \in CaptureWindows
                                  /\ up[i].rq = "capture" => up[i].of \in CaptureFrames
      BY <3>1, RequestKinds
    <3>3. \A f \in CaptureFrames : frames[f] = None => frames'[f] = None
      BY <2>f
    <3> QED BY <1>1, <1>i, <2>1, <3>2, <3>3 DEF RequestsInv
  <2>22. HandleInv'
    <3>1. \A v \in CaptureWindows : v # w => handles'[v] = handles[v]
      BY <2>1
    <3>2. handles'[w] = "closed"
      BY <1>i, <2>1 DEF CapTypes, HandlesType
    <3>3. \A v \in CaptureWindows : handles'[v] = "open" => window'[v] = "open"
      BY <1>1, <1>i, <3>1, <3>2 DEF HandleInv
    <3>4. ASSUME NEW f \in CaptureFrames, frames'[f] # None, frames'[f].target # Screen, ~frames'[f].terminal
          PROVE  handles'[frames'[f].target] = "open"
      <4>1. f \notin failing
        BY <2>15, <3>4
      <4>2. frames'[f] = frames[f] /\ frames[f].target # w
        BY <2>f, <3>4, <4>1
      <4>3. frames[f].target \in CaptureWindows
        <5>1. frames'[f].target \in Targets
          BY <2>15, <3>4 DEF FramesType
        <5> QED BY <3>4, <4>2, <5>1 DEF Targets
      <4> QED BY <1>i, <3>1, <3>4, <4>2, <4>3 DEF HandleInv
    <3>5. \A v \in CaptureWindows : known'[v] = "closed" => window'[v] = "gone"
      BY <1>1, <1>i, <2>1 DEF HandleInv
    <3> QED BY <3>3, <3>4, <3>5 DEF HandleInv
  <2>23. EndsInv'
    <3> SUFFICES ASSUME NEW f \in CaptureFrames, asked[f] # None
                 PROVE  IF frames'[f] # None /\ frames'[f].terminal THEN Once(down', f) ELSE Never(down', f)
      BY <2>1 DEF EndsInv
    <3>1. IF frames[f] # None /\ frames[f].terminal THEN Once(down, f) ELSE Never(down, f)
      BY <1>i DEF EndsInv
    <3>2. CASE f \in failing
      <4>1. Never(down, f)
        BY <2>f, <3>1, <3>2
      <4> QED BY <2>14, <2>15, <3>2, <4>1
    <3>3. CASE f \notin failing
      <4>1. frames'[f] = frames[f]
        BY <2>f, <3>3
      <4> QED BY <2>14, <3>1, <3>3, <4>1
    <3> QED BY <3>2, <3>3
  <2>24. ClosedInv'
    BY <1>1, <1>i, <2>12, <2>13 DEF ClosedInv
  <2>25. KnownInv'
    <3>1. Live' => Live
      BY <1>0 DEF Live
    <3>2. Cap!Bound' => Cap!Bound
      BY <1>0, <2>1 DEF Cap!Bound
    <3> SUFFICES ASSUME Live, Cap!Bound, NEW v \in CaptureWindows
                 PROVE  /\ window'[v] = "open" => handles'[v] = "open" /\ (known'[v] = "open" \/ Shows(v) \in Items(down'))
                        /\ window'[v] # "open" =>
                             Closes(v) \in Items(down') \/ (known'[v] # "open" /\ Shows(v) \notin Items(down'))
      BY <3>1, <3>2 DEF KnownInv
    <3>3. CASE v = w
      BY <1>1, <2>12, <3>3
    <3>4. CASE v # w
      <4>1. window'[v] = window[v] /\ handles'[v] = handles[v] /\ known'[v] = known[v]
        BY <1>1, <2>1, <3>4
      <4> QED BY <1>i, <2>12, <4>1 DEF KnownInv
    <3> QED BY <3>3, <3>4
  <2> QED BY <2>16, <2>18, <2>20, <2>21, <2>22, <2>23, <2>24, <2>25 DEF CaptureInv
<1> QED BY <1>2, <1>3

\* What send_handle() of some windows leaves, when the child knew nothing of them.
LEMMA AnnouncedStep ==
  ASSUME PartnersAssumption, CaptureInv, NEW ws \in SUBSET CaptureWindows, child.conn, child' = child,
         up' \in Seq(CapRequest), RequestsInv', ~(up' # <<>> /\ Head(up') = Cap!Bind), ~Live => up' = <<>>,
         handles' = [w \in CaptureWindows |-> IF w \in ws THEN "open" ELSE handles[w]],
         frames' = frames, known' = known, asked' = asked, down' = Announce(down, ws),
         window' \in [CaptureWindows -> {"new", "open", "gone"}],
         \A w \in ws : window'[w] = "open" /\ Closes(w) \notin Items(down),
         \A w \in CaptureWindows \ ws : window'[w] = window[w],
         \A w \in ws : known[w] # "closed",
         Live => \A w \in CaptureWindows \ ws :
           /\ window[w] = "open" => handles[w] = "open" /\ (known[w] = "open" \/ Shows(w) \in Items(down))
           /\ window[w] # "open" =>
                Closes(w) \in Items(down) \/ (known[w] # "open" /\ Shows(w) \notin Items(down))
  PROVE  CaptureInv'
<1>i. /\ CapTypes /\ ProcessInv /\ EndedInv /\ RequestsInv /\ HandleInv /\ EndsInv /\ UnboundInv
      /\ ClosedInv /\ KnownInv
  BY DEF CaptureInv
<1>0. down \in Seq(CapEvent) /\ ShownFirst(down)
  BY <1>i DEF CapTypes, ClosedInv
<1>1. /\ down' \in Seq(CapEvent) /\ ShownFirst(down')
      /\ Items(down') = Items(down) \cup {Shows(w) : w \in ws} \cup {Cap!Done}
      /\ \A f \in CaptureFrames : (Never(down, f) => Never(down', f)) /\ (Once(down, f) => Once(down', f))
  BY <1>0, AnnouncedDown
<1>2. \A w \in CaptureWindows :
        /\ Closes(w) \in Items(down') <=> Closes(w) \in Items(down)
        /\ Shows(w) \in Items(down') <=> w \in ws \/ Shows(w) \in Items(down)
  BY <1>1, EventKinds
<1>3. handles' \in HandlesType
  BY <1>i DEF CapTypes, HandlesType
<1>4. CapTypes'
  BY <1>1, <1>3, <1>i DEF CapTypes
<1>5. ProcessInv' /\ EndedInv' /\ UnboundInv'
  BY <1>i DEF ProcessInv, EndedInv, UnboundInv, Live
<1>6. \A w \in CaptureWindows : handles'[w] = IF w \in ws THEN "open" ELSE handles[w]
  OBVIOUS
<1>7. HandleInv'
  <2>1. \A w \in CaptureWindows : handles'[w] = "open" => window'[w] = "open"
    BY <1>6, <1>i DEF HandleInv
  <2>2. ASSUME NEW f \in CaptureFrames, frames[f] # None, frames[f].target # Screen, ~frames[f].terminal
        PROVE  handles'[frames[f].target] = "open"
    <3>1. frames[f].target \in CaptureWindows
      <4>1. frames[f].target \in Targets
        BY <1>i, <2>2 DEF CapTypes, FramesType
      <4> QED BY <2>2, <4>1 DEF Targets
    <3> QED BY <1>6, <1>i, <2>2, <3>1 DEF HandleInv
  <2>3. \A w \in CaptureWindows : known'[w] = "closed" => window'[w] = "gone"
    BY <1>i DEF HandleInv
  <2> QED BY <2>1, <2>2, <2>3 DEF HandleInv
<1>8. EndsInv'
  BY <1>1, <1>i DEF EndsInv
<1>9. ClosedInv'
  <2>1. \A w \in CaptureWindows : Closes(w) \in Items(down) => window'[w] = "gone"
    BY <1>i DEF ClosedInv
  <2> QED BY <1>1, <1>2, <2>1 DEF ClosedInv
<1>10. KnownInv'
  <2>1. Live' => Live
    BY DEF Live
  <2> SUFFICES ASSUME Live, NEW w \in CaptureWindows
               PROVE  /\ window'[w] = "open" => handles'[w] = "open" /\ (known'[w] = "open" \/ Shows(w) \in Items(down'))
                      /\ window'[w] # "open" =>
                           Closes(w) \in Items(down') \/ (known'[w] # "open" /\ Shows(w) \notin Items(down'))
    BY <2>1 DEF KnownInv
  <2>2. CASE w \in ws
    BY <1>2, <1>6, <2>2
  <2>3. CASE w \notin ws
    BY <1>2, <1>6, <2>3
  <2> QED BY <2>2, <2>3
<1> QED BY <1>4, <1>5, <1>7, <1>8, <1>9, <1>10 DEF CaptureInv

LEMMA WindowShownStep ==
  ASSUME PartnersAssumption, CaptureInv, NEW w \in CaptureWindows, Cap!WindowShown(w) PROVE CaptureInv'
<1>i. /\ CapTypes /\ ProcessInv /\ EndedInv /\ RequestsInv /\ HandleInv /\ EndsInv /\ UnboundInv
      /\ ClosedInv /\ KnownInv
  BY DEF CaptureInv
<1>0. window[w] = "new" /\ window' = [window EXCEPT ![w] = "open"] /\ child' = child
  BY DEF Cap!WindowShown
<1>1. /\ window' \in [CaptureWindows -> {"new", "open", "gone"}] /\ window'[w] = "open"
      /\ \A v \in CaptureWindows : v # w => window'[v] = window[v]
      /\ \A v \in CaptureWindows : window[v] = "gone" => window'[v] = "gone"
      /\ \A v \in CaptureWindows : window[v] = "open" => window'[v] = "open"
  BY <1>0, <1>i DEF CapTypes
<1>r. ASSUME up' = up, asked' = asked, frames' = frames PROVE RequestsInv'
  <2>1. \A i \in 1 .. Len(up) : up[i] \in CapRequest
    BY <1>i DEF CapTypes
  <2>2. \A i \in 1 .. Len(up) : up[i].rq = "drop" => up[i].of \in CaptureWindows
    BY <2>1, RequestKinds
  <2> QED BY <1>1, <1>i, <1>r, <2>2 DEF RequestsInv
<1>2. CASE ~(Cap!Bound /\ child.proc = "running")
  <2>1. UNCHANGED capWire
    BY <1>2 DEF Cap!WindowShown, Cap!wireVars, capWire
  <2>2. CapTypes' /\ ProcessInv' /\ EndedInv' /\ UnboundInv'
    BY <1>0, <1>1, <1>i, <2>1 DEF CapTypes, ProcessInv, EndedInv, UnboundInv, Live, capWire
  <2>3. RequestsInv'
    BY <1>r, <2>1 DEF capWire
  <2>4. HandleInv' /\ EndsInv' /\ ClosedInv'
    BY <1>1, <1>i, <2>1 DEF HandleInv, EndsInv, ClosedInv, capWire
  <2>5. KnownInv'
    BY <1>0, <1>2, <2>1 DEF KnownInv, Live, Cap!Bound, capWire
  <2> QED BY <2>2, <2>3, <2>4, <2>5 DEF CaptureInv
<1>3. CASE Cap!Bound /\ child.proc = "running"
  <2>1. /\ handles' = [v \in CaptureWindows |-> IF v \in {w} THEN "open" ELSE handles[v]]
        /\ frames' = frames /\ up' = up /\ known' = known /\ asked' = asked
        /\ down' = down \o Cap!SetToSeq({Cap!Event("toplevel", v) : v \in {w}}) \o <<Cap!Done>>
    BY <1>3 DEF Cap!WindowShown, Cap!Set, Cap!Announced, Cap!Here
  <2>2. down' = Announce(down, {w})
    BY <2>1 DEF Announce
  <2>3. child.conn /\ Live /\ ~(up # <<>> /\ Head(up) = Cap!Bind)
    BY <1>3 DEF Cap!Bound, Live
  <2>4. RequestsInv' /\ up \in Seq(CapRequest)
    BY <1>r, <1>i, <2>1 DEF CapTypes
  <2>5. Closes(w) \notin Items(down)
    BY <1>0, <1>i DEF ClosedInv
  <2>6. \A v \in CaptureWindows :
           /\ window[v] = "open" => handles[v] = "open" /\ (known[v] = "open" \/ Shows(v) \in Items(down))
           /\ window[v] # "open" =>
                Closes(v) \in Items(down) \/ (known[v] # "open" /\ Shows(v) \notin Items(down))
    BY <1>3, <1>i, <2>3 DEF KnownInv
  <2>7. known[w] # "closed"
    BY <1>0, <1>i DEF HandleInv
  <2> DEFINE ws == {w}
  <2>8. /\ ws \in SUBSET CaptureWindows /\ down' = Announce(down, ws)
        /\ handles' = [v \in CaptureWindows |-> IF v \in ws THEN "open" ELSE handles[v]]
        /\ \A v \in ws : window'[v] = "open" /\ Closes(v) \notin Items(down)
        /\ \A v \in CaptureWindows \ ws : window'[v] = window[v]
        /\ \A v \in ws : known[v] # "closed"
    BY <1>1, <2>1, <2>2, <2>5, <2>7
  <2> HIDE DEF ws
  <2>9. ~(up' # <<>> /\ Head(up') = Cap!Bind) /\ up' \in Seq(CapRequest)
    BY <2>1, <2>3, <2>4
  <2> QED BY <1>0, <1>1, <2>1, <2>3, <2>4, <2>6, <2>8, <2>9, AnnouncedStep
<1> QED BY <1>2, <1>3

LEMMA ReadBindStep ==
  ASSUME PartnersAssumption, CaptureInv, Cap!ReadBind PROVE CaptureInv'
<1>n. None \notin {"open", "closed"}
  BY CapNone
<1>i. /\ CapTypes /\ ProcessInv /\ EndedInv /\ RequestsInv /\ HandleInv /\ EndsInv /\ UnboundInv
      /\ ClosedInv /\ KnownInv
  BY DEF CaptureInv
<1> DEFINE ws == {w \in CaptureWindows : window[w] = "open"}
<1>1. /\ child.conn /\ up # <<>> /\ Head(up) = Cap!Bind /\ child' = child /\ window' = window
      /\ handles' = [w \in CaptureWindows |-> IF w \in ws THEN "open" ELSE handles[w]]
      /\ frames' = frames /\ up' = Tail(up) /\ known' = known /\ asked' = asked
      /\ down' = down \o Cap!SetToSeq({Cap!Event("toplevel", w) : w \in ws}) \o <<Cap!Done>>
  BY DEF Cap!ReadBind, Cap!Reads, Cap!Set, Cap!Announced, Cap!Here, Cap!Open, Cap!Next1
<1>2. down' = Announce(down, ws)
  BY <1>1 DEF Announce
<1>3. down = <<>> /\ handles = NoWindows /\ frames = NoFrames /\ known = NoWindows /\ Items(down) = {}
  BY <1>1, <1>i, ItemsNone DEF UnboundInv
<1>4. Live /\ ~(~Live)
  BY <1>1, <1>i DEF EndedInv
<1>5. \A j \in 1 .. Len(up) : j > 1 /\ up[j].rq = "capture" => frames'[up[j].of] = None
  BY <1>1, <1>i DEF RequestsInv
<1>6. up' \in Seq(CapRequest) /\ RequestsInv' /\ ~(up' # <<>> /\ Head(up') = Cap!Bind)
  BY <1>1, <1>5, RequestRead
<1>7. \A w \in CaptureWindows : known[w] # "closed" /\ known[w] # "open"
  BY <1>3, <1>n DEF NoWindows
<1>8. window' \in [CaptureWindows -> {"new", "open", "gone"}]
  BY <1>1, <1>i DEF CapTypes
<1>9. ws \in SUBSET CaptureWindows /\ \A w \in ws : window'[w] = "open"
  BY <1>1
<1>10. \A w \in CaptureWindows \ ws : window[w] # "open" /\ window'[w] = window[w]
  BY <1>1
<1> HIDE DEF ws
<1> QED BY <1>1, <1>2, <1>3, <1>4, <1>6, <1>7, <1>8, <1>9, <1>10, AnnouncedStep

\* A request was read that is no bind: the manager is bound, and the child alive.
LEMMA ReadsBound ==
  ASSUME CaptureInv, Cap!Reads, Head(up) # Cap!Bind, up' = Tail(up), child' = child
  PROVE  /\ Live /\ Cap!Bound /\ up # <<>> /\ up \in Seq(CapRequest) /\ Head(up) \in CapRequest
         /\ Head(up) = up[1] /\ 1 \in 1 .. Len(up) /\ Len(up) \in Nat
<1>1. up # <<>> /\ child.conn /\ up \in Seq(CapRequest) /\ EndedInv
  BY DEF Cap!Reads, CaptureInv, CapTypes
<1>2. Live /\ Cap!Bound
  BY <1>1 DEF EndedInv, Cap!Bound
<1> QED BY <1>1, <1>2, Shortened

\* A frame's event follows, and the frame becomes what the event says.
LEMMA FrameStep ==
  ASSUME PartnersAssumption, CaptureInv, Cap!Reads, Head(up) # Cap!Bind, up' = Tail(up), child' = child,
         NEW f \in CaptureFrames, NEW k, k \in {"buffer", "failed", "ready"},
         window' = window, handles' = handles, known' = known, asked' = asked,
         NEW t \in Targets, frames' = [frames EXCEPT ![f] = [target |-> t, terminal |-> k # "buffer"]],
         t # Screen /\ k = "buffer" => handles[t] = "open",
         down' = Append(down, Cap!Event(k, f)),
         asked[f] # None => Never(down, f),
         \A j \in 1 .. Len(up) : j > 1 /\ up[j].rq = "capture" => frames[up[j].of] = None /\ up[j].of # f
  PROVE  CaptureInv'
<1>i. /\ CapTypes /\ ProcessInv /\ EndedInv /\ RequestsInv /\ HandleInv /\ EndsInv /\ UnboundInv
      /\ ClosedInv /\ KnownInv
  BY DEF CaptureInv
<1>0. Live /\ Cap!Bound /\ up # <<>> /\ down \in Seq(CapEvent) /\ ShownFirst(down) /\ frames \in FramesType
  BY <1>i, ReadsBound DEF CapTypes, ClosedInv
<1>1. \A j \in 1 .. Len(up) : up[j].rq = "capture" => up[j].of \in CaptureFrames
  <2>1. \A j \in 1 .. Len(up) : up[j] \in CapRequest
    BY <1>i DEF CapTypes
  <2> QED BY <2>1, RequestKinds
<1>2. /\ frames' \in FramesType /\ frames'[f] = [target |-> t, terminal |-> k # "buffer"]
      /\ \A g \in CaptureFrames : g # f => frames'[g] = frames[g]
  BY <1>0 DEF FramesType
<1>3. frames'[f] # None /\ frames'[f].target = t /\ frames'[f].terminal = (k # "buffer")
  <2>1. (k # "buffer") \in BOOLEAN
    OBVIOUS
  <2>2. [target |-> t, terminal |-> k # "buffer"] # None
    BY <2>1, CapNone
  <2> QED BY <1>2, <2>2
<1>4. \A j \in 1 .. Len(up) : j > 1 /\ up[j].rq = "capture" => frames'[up[j].of] = None
  BY <1>1, <1>2
<1>5. up' \in Seq(CapRequest) /\ RequestsInv' /\ ~(up' # <<>> /\ Head(up') = Cap!Bind)
  BY <1>0, <1>4, RequestRead
<1>6. /\ down' \in Seq(CapEvent) /\ ShownFirst(down')
      /\ \A w \in CaptureWindows : /\ Shows(w) \in Items(down') <=> Shows(w) \in Items(down)
                                   /\ Closes(w) \in Items(down') <=> Closes(w) \in Items(down)
      /\ \A g \in CaptureFrames :
           g # f \/ k = "buffer" => /\ Never(down, g) => Never(down', g)
                                    /\ Once(down, g) => Once(down', g)
      /\ k # "buffer" /\ Never(down, f) => Once(down', f)
  BY <1>0, FrameEventFollows
<1>7. CapTypes' /\ ProcessInv' /\ UnboundInv'
  BY <1>2, <1>5, <1>6, <1>i DEF CapTypes, ProcessInv, UnboundInv
<1>8. EndedInv'
  BY <1>0 DEF EndedInv, Live
<1>9. HandleInv'
  <2>1. ASSUME NEW g \in CaptureFrames, frames'[g] # None, frames'[g].target # Screen, ~frames'[g].terminal
        PROVE  handles'[frames'[g].target] = "open"
    <3>1. CASE g = f
      BY <1>3, <2>1, <3>1
    <3>2. CASE g # f
      BY <1>2, <1>i, <2>1, <3>2 DEF HandleInv
    <3> QED BY <3>1, <3>2
  <2> QED BY <1>i, <2>1 DEF HandleInv
<1>10. EndsInv'
  <2> SUFFICES ASSUME NEW g \in CaptureFrames, asked[g] # None
               PROVE  IF frames'[g] # None /\ frames'[g].terminal THEN Once(down', g) ELSE Never(down', g)
    BY DEF EndsInv
  <2>1. CASE g = f
    <3>1. Never(down, f)
      BY <2>1
    <3>2. CASE k = "buffer"
      BY <1>3, <1>6, <2>1, <3>1, <3>2
    <3>3. CASE k # "buffer"
      BY <1>3, <1>6, <2>1, <3>1, <3>3
    <3> QED BY <3>2, <3>3
  <2>2. CASE g # f
    <3>1. IF frames[g] # None /\ frames[g].terminal THEN Once(down, g) ELSE Never(down, g)
      BY <1>i DEF EndsInv
    <3> QED BY <1>2, <1>6, <2>2, <3>1
  <2> QED BY <2>1, <2>2
<1>11. ClosedInv' /\ KnownInv'
  BY <1>0, <1>6, <1>i DEF ClosedInv, KnownInv, Live
<1> QED BY <1>5, <1>7, <1>8, <1>9, <1>10, <1>11 DEF CaptureInv

LEMMA ReadCaptureStep ==
  ASSUME PartnersAssumption, CaptureInv, Cap!ReadCapture PROVE CaptureInv'
<1>i. CapTypes /\ RequestsInv /\ EndsInv
  BY DEF CaptureInv
<1> DEFINE f == Head(up).of
           t == Head(up).target
<1>1. Cap!Reads /\ Head(up).rq = "capture"
  BY DEF Cap!ReadCapture, Cap!Reading
<1>2. CASE Cap!ClientDestroyed
  BY <1>2, ClientDestroyedStep
<1>3. CASE ~Cap!ClientDestroyed
  <2>1. PICK ok \in BOOLEAN :
          /\ Cap!Set([Cap!Here EXCEPT !.up = Cap!Next1, !.frames[f] = [target |-> t, terminal |-> ~ok],
                                      !.down = Append(@, Cap!Event(IF ok THEN "buffer" ELSE "failed", f))])
          /\ UNCHANGED <<v1, v2>>
    BY <1>3 DEF Cap!ReadCapture
  <2>2. t # Screen => handles[t] = "open"
    BY <1>3 DEF Cap!ReadCapture
  <2> DEFINE k == IF ok THEN "buffer" ELSE "failed"
  <2>3. /\ up' = Tail(up) /\ child' = child /\ window' = window /\ handles' = handles /\ known' = known
        /\ asked' = asked /\ frames' = [frames EXCEPT ![f] = [target |-> t, terminal |-> ~ok]]
        /\ down' = Append(down, Cap!Event(k, f))
    BY <2>1 DEF Cap!Set, Cap!Here, Cap!Next1
  <2>4. k \in {"buffer", "failed", "ready"} /\ (~ok) = (k # "buffer")
    OBVIOUS
  <2>5. Head(up) # Cap!Bind
    BY <1>1, RequestKinds
  <2>6. /\ up # <<>> /\ Head(up) \in CapRequest /\ Head(up) = up[1] /\ 1 \in 1 .. Len(up)
    BY <1>1, <2>3, <2>5, ReadsBound
  <2>7. f \in CaptureFrames /\ t \in Targets
    BY <1>1, <2>6, RequestKinds
  <2>8. frames[f] = None
    BY <1>1, <1>i, <2>6 DEF RequestsInv
  <2>9. asked[f] # None => Never(down, f)
    BY <1>i, <2>7, <2>8 DEF EndsInv
  <2>10. \A j \in 1 .. Len(up) : j > 1 /\ up[j].rq = "capture" => frames[up[j].of] = None /\ up[j].of # f
    BY <1>i, <2>5, <2>6 DEF RequestsInv
  <2> HIDE DEF f, t, k
  <2>11. frames' = [frames EXCEPT ![f] = [target |-> t, terminal |-> k # "buffer"]]
    BY <2>3, <2>4
  <2> QED BY <1>1, <2>2, <2>3, <2>4, <2>5, <2>7, <2>9, <2>10, <2>11, FrameStep
<1> QED BY <1>2, <1>3

LEMMA Ended ==
  ASSUME NEW T, NEW x \in [target : T, terminal : BOOLEAN]
  PROVE  [x EXCEPT !.terminal = TRUE] = [target |-> x.target, terminal |-> TRUE]
<1> DEFINE y == [x EXCEPT !.terminal = TRUE]
<1>1. y \in [target : T, terminal : BOOLEAN] /\ y.target = x.target /\ y.terminal = TRUE
  OBVIOUS
<1> HIDE DEF y
<1>2. y = [target |-> y.target, terminal |-> y.terminal]
  BY <1>1
<1> QED BY <1>1, <1>2 DEF y

LEMMA ReadCopyStep ==
  ASSUME PartnersAssumption, CaptureInv, Cap!ReadCopy PROVE CaptureInv'
<1>i. CapTypes /\ RequestsInv /\ EndsInv
  BY DEF CaptureInv
<1> DEFINE f == Head(up).of
<1>1. Cap!Reads /\ Head(up).rq = "copy"
  BY DEF Cap!ReadCopy, Cap!Reading
<1>2. CASE frames[f] = None \/ frames[f].terminal
  <2>1. Cap!ClientDestroyed
    BY <1>2 DEF Cap!ReadCopy
  <2> QED BY <2>1, ClientDestroyedStep
<1>3. CASE frames[f] # None /\ ~frames[f].terminal
  <2>1. /\ Cap!Set([Cap!Here EXCEPT !.up = Cap!Next1, !.frames[f].terminal = TRUE,
                                    !.down = Append(@, Cap!Event("ready", f))])
        /\ UNCHANGED <<v1, v2>>
    BY <1>3 DEF Cap!ReadCopy
  <2>3. /\ up' = Tail(up) /\ child' = child /\ window' = window /\ handles' = handles /\ known' = known
        /\ asked' = asked /\ frames' = [frames EXCEPT ![f] = [frames[f] EXCEPT !.terminal = TRUE]]
        /\ down' = Append(down, Cap!Event("ready", f))
    BY <2>1 DEF Cap!Set, Cap!Here, Cap!Next1
  <2>5. Head(up) # Cap!Bind
    BY <1>1, RequestKinds
  <2>6. up # <<>> /\ Head(up) \in CapRequest
    BY <1>1, <2>3, <2>5, ReadsBound
  <2>7. f \in CaptureFrames
    BY <1>1, <2>6, RequestKinds
  <2> HIDE DEF f
  <2>8. /\ frames[f].target \in Targets
        /\ [frames[f] EXCEPT !.terminal = TRUE] = [target |-> frames[f].target, terminal |-> "ready" # "buffer"]
    <3>1. frames[f] \in [target : Targets, terminal : BOOLEAN]
      BY <1>3, <1>i, <2>7 DEF CapTypes, FramesType
    <3>2. frames[f].target \in Targets
      BY <3>1
    <3>3. [frames[f] EXCEPT !.terminal = TRUE] = [target |-> frames[f].target, terminal |-> TRUE]
      BY <3>1, Ended
    <3>4. ("ready" # "buffer") = TRUE
      OBVIOUS
    <3> QED BY <3>2, <3>3, <3>4
  <2>9. asked[f] # None => Never(down, f)
    BY <1>3, <1>i, <2>7 DEF EndsInv
  <2>10. \A j \in 1 .. Len(up) : j > 1 /\ up[j].rq = "capture" => frames[up[j].of] = None /\ up[j].of # f
    BY <1>3, <1>i DEF RequestsInv
  <2> DEFINE t == frames[f].target
             k == "ready"
  <2>11. /\ frames' = [frames EXCEPT ![f] = [target |-> t, terminal |-> k # "buffer"]]
         /\ k \in {"buffer", "failed", "ready"} /\ t \in Targets /\ k # "buffer"
         /\ down' = Append(down, Cap!Event(k, f))
    BY <2>3, <2>8
  <2> HIDE DEF t, k
  <2> QED BY <1>1, <2>3, <2>5, <2>7, <2>9, <2>10, <2>11, FrameStep
<1> QED BY <1>2, <1>3

LEMMA ReadDestroyStep ==
  ASSUME PartnersAssumption, CaptureInv, Cap!ReadDestroy PROVE CaptureInv'
<1>i. /\ CapTypes /\ ProcessInv /\ EndedInv /\ RequestsInv /\ HandleInv /\ EndsInv /\ UnboundInv
      /\ ClosedInv /\ KnownInv
  BY DEF CaptureInv
<1> DEFINE f == Head(up).of
<1>1. Cap!Reads /\ Head(up).rq = "destroy"
  BY DEF Cap!ReadDestroy, Cap!Reading
<1>2. /\ up' = Tail(up) /\ child' = child /\ window' = window /\ handles' = handles /\ known' = known
      /\ asked' = asked /\ down' = down /\ frames' = [frames EXCEPT ![f] = None]
  BY DEF Cap!ReadDestroy, Cap!Set, Cap!Here, Cap!Next1
<1>3. Head(up) # Cap!Bind
  BY <1>1, RequestKinds
<1>4. /\ Live /\ Cap!Bound /\ up # <<>> /\ Head(up) \in CapRequest /\ Head(up) = up[1] /\ 1 \in 1 .. Len(up)
  BY <1>1, <1>2, <1>3, ReadsBound
<1>5. f \in CaptureFrames
  BY <1>1, <1>4, RequestKinds
<1>6. asked[f] = None
  BY <1>1, <1>4, <1>i DEF RequestsInv
<1> HIDE DEF f
<1>7. /\ frames' \in FramesType /\ frames'[f] = None /\ \A g \in CaptureFrames : g # f => frames'[g] = frames[g]
      /\ \A g \in CaptureFrames : frames[g] = None => frames'[g] = None
  BY <1>2, <1>5, <1>i DEF CapTypes, FramesType
<1>8. \A j \in 1 .. Len(up) : j > 1 /\ up[j].rq = "capture" => frames'[up[j].of] = None
  <2>1. \A j \in 1 .. Len(up) : up[j] \in CapRequest
    BY <1>i DEF CapTypes
  <2> QED BY <1>7, <1>i, <2>1, RequestKinds DEF RequestsInv
<1>9. up' \in Seq(CapRequest) /\ RequestsInv' /\ ~(up' # <<>> /\ Head(up') = Cap!Bind)
  BY <1>2, <1>4, <1>8, RequestRead
<1>10. CapTypes' /\ ProcessInv' /\ UnboundInv'
  BY <1>2, <1>7, <1>9, <1>i DEF CapTypes, ProcessInv, UnboundInv
<1>11. EndedInv'
  BY <1>2, <1>4 DEF EndedInv, Live
<1>12. HandleInv'
  BY <1>2, <1>7, <1>i DEF HandleInv
<1>13. EndsInv'
  BY <1>2, <1>6, <1>7, <1>i DEF EndsInv
<1>14. ClosedInv' /\ KnownInv'
  BY <1>2, <1>4, <1>i DEF ClosedInv, KnownInv, Live
<1> QED BY <1>9, <1>10, <1>11, <1>12, <1>13, <1>14 DEF CaptureInv

LEMMA ReadDropStep ==
  ASSUME PartnersAssumption, CaptureInv, Cap!ReadDrop PROVE CaptureInv'
<1>i. /\ CapTypes /\ ProcessInv /\ EndedInv /\ RequestsInv /\ HandleInv /\ EndsInv /\ UnboundInv
      /\ ClosedInv /\ KnownInv
  BY DEF CaptureInv
<1>n. None \notin {"open", "closed"}
  BY CapNone
<1> DEFINE w == Head(up).of
<1>1. Cap!Reads /\ Head(up).rq = "drop"
  BY DEF Cap!ReadDrop, Cap!Reading
<1>2. /\ up' = Tail(up) /\ child' = child /\ window' = window /\ frames' = frames /\ known' = known
      /\ asked' = asked /\ down' = down /\ handles' = [handles EXCEPT ![w] = None]
  BY DEF Cap!ReadDrop, Cap!Set, Cap!Here, Cap!Next1
<1>3. Head(up) # Cap!Bind
  BY <1>1, RequestKinds
<1>4. /\ Live /\ Cap!Bound /\ up # <<>> /\ Head(up) \in CapRequest /\ Head(up) = up[1] /\ 1 \in 1 .. Len(up)
  BY <1>1, <1>2, <1>3, ReadsBound
<1>5. w \in CaptureWindows
  BY <1>1, <1>4, RequestKinds
<1>6. window[w] = "gone"
  BY <1>1, <1>4, <1>i DEF RequestsInv
<1> HIDE DEF w
<1>7. /\ handles' \in HandlesType /\ handles'[w] = None
      /\ \A v \in CaptureWindows : v # w => handles'[v] = handles[v]
  BY <1>2, <1>5, <1>i DEF CapTypes, HandlesType
<1>8. \A j \in 1 .. Len(up) : j > 1 /\ up[j].rq = "capture" => frames'[up[j].of] = None
  BY <1>2, <1>i DEF RequestsInv
<1>9. up' \in Seq(CapRequest) /\ RequestsInv' /\ ~(up' # <<>> /\ Head(up') = Cap!Bind)
  BY <1>2, <1>4, <1>8, RequestRead
<1>10. CapTypes' /\ ProcessInv' /\ UnboundInv'
  BY <1>2, <1>7, <1>9, <1>i DEF CapTypes, ProcessInv, UnboundInv
<1>11. EndedInv'
  BY <1>2, <1>4 DEF EndedInv, Live
<1>12. HandleInv'
  <2>1. handles[w] # "open"
    BY <1>5, <1>6, <1>i DEF HandleInv
  <2>2. \A v \in CaptureWindows : handles'[v] = "open" => window[v] = "open"
    BY <1>7, <1>i, <1>n DEF HandleInv
  <2>3. ASSUME NEW f \in CaptureFrames, frames[f] # None, frames[f].target # Screen, ~frames[f].terminal
        PROVE  handles'[frames[f].target] = "open"
    <3>1. handles[frames[f].target] = "open"
      BY <1>i, <2>3 DEF HandleInv
    <3>2. frames[f].target \in CaptureWindows
      <4>1. frames[f].target \in Targets
        BY <1>i, <2>3 DEF CapTypes, FramesType
      <4> QED BY <2>3, <4>1 DEF Targets
    <3> QED BY <1>7, <2>1, <3>1, <3>2
  <2> QED BY <1>2, <1>i, <2>2, <2>3 DEF HandleInv
<1>13. EndsInv'
  BY <1>2, <1>i DEF EndsInv
<1>14. ClosedInv'
  BY <1>2, <1>i DEF ClosedInv
<1>15. KnownInv'
  BY <1>2, <1>4, <1>6, <1>7, <1>i DEF KnownInv, Live
<1> QED BY <1>9, <1>10, <1>11, <1>12, <1>13, <1>14, <1>15 DEF CaptureInv

-----------------------------------------------------------------------------
(* The child asks, and takes what it is told. *)

LEMMA CaptureStepOf ==
  ASSUME PartnersAssumption, CaptureInv, NEW f \in CaptureFrames, NEW t \in Targets, Cap!Capture(f, t)
  PROVE  CaptureInv'
<1>i. /\ CapTypes /\ ProcessInv /\ EndedInv /\ RequestsInv /\ HandleInv /\ EndsInv /\ UnboundInv
      /\ ClosedInv /\ KnownInv
  BY DEF CaptureInv
<1> DEFINE r == [rq |-> "capture", of |-> f, target |-> t]
           q == Append(up, r)
<1>1. /\ child.conn /\ child.proc = "running" /\ asked[f] = None /\ frames[f] = None /\ ~Cap!Mentioned(f)
      /\ \A i \in 1 .. Len(up) : up[i] # Cap!Bind => up[i].of # f
      /\ child' = child /\ window' = window /\ handles' = handles /\ frames' = frames /\ known' = known
      /\ down' = down /\ up' = q /\ asked' = [asked EXCEPT ![f] = [target |-> t, state |-> "asked"]]
  BY DEF Cap!Capture, Cap!Talks, Cap!Set, Cap!Here
<1>2. Live /\ up \in Seq(CapRequest)
  BY <1>1, <1>i DEF Live, CapTypes
<1>3. r \in CapRequest /\ r # Cap!Bind /\ r.rq = "capture" /\ r.of = f
  BY RequestKinds DEF CapRequest
<1> HIDE DEF r
<1>4. /\ q \in Seq(CapRequest) /\ Len(up) \in Nat /\ Len(q) = Len(up) + 1 /\ q[Len(up) + 1] = r
      /\ \A i \in 1 .. Len(up) : q[i] = up[i]
  BY <1>2, <1>3
<1>5. \A i \in 1 .. Len(q) : (i \in 1 .. Len(up) /\ q[i] = up[i]) \/ (i = Len(up) + 1 /\ q[i] = r)
  BY <1>4
<1> HIDE DEF q
<1>6. Head(q) = q[1] /\ q # <<>>
  <2>1. q # <<>>
    BY <1>4
  <2> QED BY <1>4, <2>1, Shortened
<1>7. \A i \in 1 .. Len(q) : i > 1 => q[i] # Cap!Bind
  BY <1>3, <1>5, <1>i DEF RequestsInv
<1>8. \A j \in 1 .. Len(q) : q[j].rq = "capture" =>
        /\ frames[q[j].of] = None
        /\ \A i \in 1 .. Len(q) : i < j => q[i] = Cap!Bind \/ q[i].of # q[j].of
  <2> SUFFICES ASSUME NEW j \in 1 .. Len(q), q[j].rq = "capture"
               PROVE  /\ frames[q[j].of] = None
                      /\ \A i \in 1 .. Len(q) : i < j => q[i] = Cap!Bind \/ q[i].of # q[j].of
    OBVIOUS
  <2>1. CASE j \in 1 .. Len(up) /\ q[j] = up[j]
    <3>1. frames[q[j].of] = None
      BY <1>i, <2>1 DEF RequestsInv
    <3>2. ASSUME NEW i \in 1 .. Len(q), i < j PROVE q[i] = Cap!Bind \/ q[i].of # q[j].of
      <4>1. i \in 1 .. Len(up) /\ q[i] = up[i]
        BY <1>4, <1>5, <2>1, <3>2
      <4>2. up[j].rq = "capture"
        BY <2>1
      <4> QED BY <1>i, <2>1, <3>2, <4>1, <4>2 DEF RequestsInv
    <3> QED BY <3>1, <3>2
  <2>2. CASE j = Len(up) + 1 /\ q[j] = r
    <3>1. frames[q[j].of] = None
      BY <1>1, <1>3, <2>2
    <3>2. ASSUME NEW i \in 1 .. Len(q), i < j PROVE q[i] = Cap!Bind \/ q[i].of # q[j].of
      <4>1. i \in 1 .. Len(up) /\ q[i] = up[i]
        BY <1>4, <1>5, <2>2, <3>2
      <4> QED BY <1>1, <1>3, <2>2, <4>1
    <3> QED BY <3>1, <3>2
  <2> QED BY <1>5, <2>1, <2>2
<1>9. \A g \in CaptureFrames : g # f => asked'[g] = asked[g]
  BY <1>1, <1>i DEF CapTypes, AskedType
<1>10. \A i \in 1 .. Len(q) : q[i].rq = "destroy" => asked'[q[i].of] = None
  <2> SUFFICES ASSUME NEW i \in 1 .. Len(q), q[i].rq = "destroy" PROVE asked'[q[i].of] = None
    OBVIOUS
  <2>1. i \in 1 .. Len(up) /\ q[i] = up[i]
    BY <1>3, <1>5
  <2>2. up[i].rq = "destroy" /\ up[i] # Cap!Bind
    BY <2>1, RequestKinds
  <2>3. up[i].of # f /\ asked[up[i].of] = None
    BY <1>1, <1>i, <2>1, <2>2 DEF RequestsInv
  <2>4. up[i] \in CapRequest
    BY <1>2, <2>1
  <2>5. up[i].of \in CaptureFrames
    BY <2>2, <2>4, RequestKinds
  <2> QED BY <1>9, <2>1, <2>3, <2>5
<1>11. \A i \in 1 .. Len(q) : q[i].rq = "drop" => window'[q[i].of] = "gone"
  <2> SUFFICES ASSUME NEW i \in 1 .. Len(q), q[i].rq = "drop" PROVE window'[q[i].of] = "gone"
    OBVIOUS
  <2>1. i \in 1 .. Len(up) /\ q[i] = up[i]
    BY <1>3, <1>5
  <2> QED BY <1>1, <1>i, <2>1 DEF RequestsInv
<1>12. RequestsInv'
  BY <1>1, <1>7, <1>8, <1>10, <1>11 DEF RequestsInv
<1>13. CapTypes'
  <2>1. asked' \in AskedType
    <3>1. [target |-> t, state |-> "asked"] \in [target : Targets, state : {"asked", "copying"}]
      OBVIOUS
    <3> QED BY <1>1, <1>i, <3>1 DEF CapTypes, AskedType
  <2> QED BY <1>1, <1>4, <1>i, <2>1 DEF CapTypes
<1>14. EndsInv'
  <2> SUFFICES ASSUME NEW g \in CaptureFrames, asked'[g] # None
               PROVE  IF frames[g] # None /\ frames[g].terminal THEN Once(down, g) ELSE Never(down, g)
    BY <1>1 DEF EndsInv
  <2>1. CASE g = f
    <3>1. Never(down, f)
      BY <1>1 DEF Cap!Mentioned, Never, Ends, IsEnd
    <3> QED BY <1>1, <2>1, <3>1
  <2>2. CASE g # f
    BY <1>9, <1>i, <2>2 DEF EndsInv
  <2> QED BY <2>1, <2>2
<1>15. up # <<>> => Head(q) = Head(up)
  <2> SUFFICES ASSUME up # <<>> PROVE Head(q) = Head(up)
    OBVIOUS
  <2>1. Head(up) = up[1] /\ 1 \in 1 .. Len(up)
    BY <1>2, Shortened
  <2> QED BY <1>4, <1>6, <2>1
<1>16. up = <<>> => Head(q) = r
  <2> SUFFICES ASSUME up = <<>> PROVE Head(q) = r
    OBVIOUS
  <2>1. Len(up) + 1 = 1
    OBVIOUS
  <2> QED BY <1>4, <1>6, <2>1
<1>17. UnboundInv'
  BY <1>1, <1>3, <1>15, <1>16, <1>i DEF UnboundInv
<1>18. KnownInv'
  BY <1>1, <1>2, <1>6, <1>15, <1>i DEF KnownInv, Cap!Bound, Live
<1>19. ProcessInv' /\ EndedInv' /\ HandleInv' /\ ClosedInv'
  BY <1>1, <1>2, <1>i DEF ProcessInv, EndedInv, Live, HandleInv, ClosedInv
<1> QED BY <1>12, <1>13, <1>14, <1>17, <1>18, <1>19 DEF CaptureInv

LEMMA OneRequest ==
  ASSUME NEW f \in CaptureFrames, NEW r, r \in {"copy", "destroy"}, NEW q \in Seq(CapRequest)
  PROVE  /\ Append(q, Cap!Request(r, f)) = q \o <<Cap!Request(r, f)>>
         /\ <<Cap!Request(r, f)>> \in Seq(CapRequest)
         /\ Items(<<Cap!Request(r, f)>>) = {Cap!Request(r, f)}
         /\ Cap!Request(r, f).rq = r /\ Cap!Request(r, f).of = f
<1> DEFINE e == Cap!Request(r, f)
<1>1. e \in CapRequest /\ e.rq = r /\ e.of = f
  BY DEF CapRequest, Cap!Request
<1> HIDE DEF e
<1>2. Append(q, e) = q \o <<e>> /\ <<e>> \in Seq(CapRequest) /\ Items(<<e>>) = {e}
  BY <1>1, Added1, ItemsOne
<1> QED BY <1>1, <1>2 DEF e

LEMMA CancelFrameStep ==
  ASSUME PartnersAssumption, CaptureInv, NEW f \in CaptureFrames, Cap!CancelFrame(f) PROVE CaptureInv'
<1>i. /\ CapTypes /\ ProcessInv /\ EndedInv /\ RequestsInv /\ HandleInv /\ EndsInv /\ UnboundInv
      /\ ClosedInv /\ KnownInv
  BY DEF CaptureInv
<1> DEFINE s == <<Cap!Request("destroy", f)>>
<1>1. /\ child.conn /\ child.proc = "running" /\ child' = child /\ window' = window /\ handles' = handles
      /\ frames' = frames /\ known' = known /\ down' = down /\ up' = Append(up, Cap!Request("destroy", f))
      /\ asked' = [asked EXCEPT ![f] = None]
  BY DEF Cap!CancelFrame, Cap!Talks, Cap!Set, Cap!Here
<1>2. Live /\ up \in Seq(CapRequest)
  BY <1>1, <1>i DEF Live, CapTypes
<1>3. asked' \in AskedType /\ \A g \in CaptureFrames : asked'[g] = IF g = f THEN None ELSE asked[g]
  BY <1>1, <1>i DEF CapTypes, AskedType
<1>4. /\ up' = up \o s /\ s \in Seq(CapRequest)
      /\ \A r \in Items(s) : r.rq = "destroy" /\ r.of = f
  BY <1>1, <1>2, OneRequest
<1> HIDE DEF s
<1>5. \A r \in Items(s) : /\ r.rq \in {"copy", "destroy", "drop"}
                          /\ r.rq = "destroy" => asked'[r.of] = None
                          /\ r.rq = "drop" => window'[r.of] = "gone"
  BY <1>3, <1>4
<1>6. /\ up' \in Seq(CapRequest) /\ RequestsInv'
      /\ (up = <<>> => (up' = <<>> \/ Head(up') # Cap!Bind))
      /\ (up # <<>> => up' # <<>> /\ Head(up') = Head(up))
  BY <1>1, <1>3, <1>4, <1>5, RequestsFollow
<1>7. CapTypes'
  BY <1>1, <1>3, <1>6, <1>i DEF CapTypes
<1>8. EndsInv'
  BY <1>1, <1>3, <1>i DEF EndsInv
<1>9. UnboundInv' /\ KnownInv'
  BY <1>1, <1>2, <1>6, <1>i DEF UnboundInv, KnownInv, Cap!Bound, Live
<1>10. ProcessInv' /\ EndedInv' /\ HandleInv' /\ ClosedInv'
  BY <1>1, <1>2, <1>i DEF ProcessInv, EndedInv, Live, HandleInv, ClosedInv
<1> QED BY <1>6, <1>7, <1>8, <1>9, <1>10 DEF CaptureInv

\* The first event is taken.
LEMMA EventTaken ==
  ASSUME CaptureInv, Live, down # <<>>, down' = Tail(down), child' = child, window' = window
  PROVE  /\ Cap!Bound /\ Live' /\ down' \in Seq(CapEvent) /\ ClosedInv' /\ ProcessInv' /\ EndedInv'
         /\ Head(down) \in CapEvent /\ Items(down) = {Head(down)} \cup Items(down')
         /\ \A w \in CaptureWindows : Head(down) = Closes(w) =>
              window[w] = "gone" /\ Shows(w) \notin Items(down')
         /\ \A f \in CaptureFrames : ~IsEnd(Head(down), f) =>
              (Never(down, f) => Never(down', f)) /\ (Once(down, f) => Once(down', f))
<1>i. /\ CapTypes /\ ProcessInv /\ EndedInv /\ UnboundInv /\ ClosedInv
  BY DEF CaptureInv
<1>0. down \in Seq(CapEvent) /\ ShownFirst(down)
  BY <1>i DEF CapTypes, ClosedInv
<1>1. Cap!Bound /\ Live'
  BY <1>i DEF UnboundInv, Cap!Bound, Live
<1>2. down' \in Seq(CapEvent) /\ Head(down) \in CapEvent
  BY <1>0, Shortened
<1>3. Items(down) = {Head(down)} \cup Items(down') /\ Head(down) \in Items(down)
  BY <1>0, ItemsShortened
<1>4. ShownFirst(down') /\ \A w \in CaptureWindows : Head(down) = Closes(w) => Shows(w) \notin Items(down')
  BY <1>0, ShownFirstShortened
<1>5. ClosedInv' /\ \A w \in CaptureWindows : Head(down) = Closes(w) => window[w] = "gone"
  BY <1>3, <1>4, <1>i DEF ClosedInv
<1>6. \A f \in CaptureFrames : ~IsEnd(Head(down), f) =>
        (Never(down, f) => Never(down', f)) /\ (Once(down, f) => Once(down', f))
  <2> SUFFICES ASSUME NEW f \in CaptureFrames, ~IsEnd(Head(down), f)
               PROVE  (Never(down, f) => Never(down', f)) /\ (Once(down, f) => Once(down', f))
    OBVIOUS
  <2> QED BY <1>0, EndsShortened
<1>7. ProcessInv' /\ EndedInv'
  BY <1>1, <1>i DEF ProcessInv, EndedInv
<1> QED BY <1>1, <1>2, <1>3, <1>4, <1>5, <1>6, <1>7

\* The handles of windows are dropped, each by a request.
LEMMA DropsRequested ==
  ASSUME PartnersAssumption, NEW ws \in SUBSET CaptureWindows
  PROVE  /\ Cap!SetToSeq({Cap!Request("drop", w) : w \in ws}) \in Seq(CapRequest)
         /\ \A r \in Items(Cap!SetToSeq({Cap!Request("drop", w) : w \in ws})) : r.rq = "drop" /\ r.of \in ws
<1> DEFINE S == {Cap!Request("drop", w) : w \in ws}
           s == Cap!SetToSeq(S)
<1>1. IsFiniteSet(S)
  <2>1. IsFiniteSet(ws)
    BY FS_Subset DEF PartnersAssumption
  <2> DEFINE g == [w \in ws |-> Cap!Request("drop", w)]
  <2>2. g \in Surjection(ws, S)
    BY DEF Surjection
  <2> QED BY <2>1, <2>2, FS_Surjection
<1>2. s \in Seq(S) /\ Items(s) = S
  BY <1>1, ItemsEnumerated
<1>3. \A r \in S : r \in CapRequest /\ r.rq = "drop" /\ r.of \in ws
  BY DEF CapRequest, Cap!Request
<1> HIDE DEF s, S
<1>4. s \in Seq(CapRequest)
  BY <1>2, <1>3, Widened
<1>5. \A r \in Items(s) : r.rq = "drop" /\ r.of \in ws
  BY <1>2, <1>3
<1> QED BY <1>4, <1>5 DEF s, S

\* An event of a window: it is shown, or closed.
LEMMA WindowEventStep ==
  ASSUME PartnersAssumption, CaptureInv, Live, down # <<>>, down' = Tail(down), child' = child,
         window' = window, handles' = handles, frames' = frames, up' = up, asked' = asked,
         NEW w \in CaptureWindows,
         \/ Head(down) = Shows(w) /\ known' = [known EXCEPT ![w] = "open"]
         \/ Head(down) = Closes(w) /\ known' = [known EXCEPT ![w] = "closed"]
  PROVE  CaptureInv'
<1>i. CapTypes /\ RequestsInv /\ HandleInv /\ EndsInv /\ UnboundInv /\ KnownInv
  BY DEF CaptureInv
<1>1. /\ Cap!Bound /\ Live' /\ down' \in Seq(CapEvent) /\ ClosedInv' /\ ProcessInv' /\ EndedInv'
      /\ Items(down) = {Head(down)} \cup Items(down')
      /\ Head(down) = Closes(w) => window[w] = "gone" /\ Shows(w) \notin Items(down')
      /\ \A f \in CaptureFrames : ~IsEnd(Head(down), f) =>
           (Never(down, f) => Never(down', f)) /\ (Once(down, f) => Once(down', f))
  BY EventTaken
<1>2. /\ known' \in HandlesType /\ \A v \in CaptureWindows : v # w => known'[v] = known[v]
      /\ Head(down) = Shows(w) => known'[w] = "open"
      /\ Head(down) = Closes(w) => known'[w] = "closed"
  <2>1. Shows(w) # Closes(w)
    BY EventKinds
  <2> QED BY <1>i, <2>1 DEF CapTypes, HandlesType
<1>3. CapTypes'
  BY <1>1, <1>2, <1>i DEF CapTypes
<1>4. RequestsInv' /\ UnboundInv'
  BY <1>1, <1>i DEF RequestsInv, UnboundInv, Cap!Bound
<1>5. HandleInv'
  <2>1. \A v \in CaptureWindows : known'[v] = "closed" => window[v] = "gone"
    BY <1>1, <1>2, <1>i DEF HandleInv
  <2> QED BY <1>i, <2>1 DEF HandleInv
<1>6. EndsInv'
  <2>1. \A f \in CaptureFrames : ~IsEnd(Head(down), f)
    BY EventKinds DEF IsEnd
  <2> QED BY <1>1, <1>i, <2>1 DEF EndsInv
<1>7. KnownInv'
  <2>1. \A v \in CaptureWindows :
          /\ window[v] = "open" => handles[v] = "open" /\ (known[v] = "open" \/ Shows(v) \in Items(down))
          /\ window[v] # "open" =>
               Closes(v) \in Items(down) \/ (known[v] # "open" /\ Shows(v) \notin Items(down))
    BY <1>1, <1>i DEF KnownInv
  <2>2. \A v \in CaptureWindows : Shows(v) # Closes(w) /\ Closes(v) # Shows(w)
                                  /\ (v # w => Shows(v) # Shows(w) /\ Closes(v) # Closes(w))
    BY EventKinds
  <2>3. \A v \in CaptureWindows : v # w =>
          /\ Shows(v) \in Items(down) <=> Shows(v) \in Items(down')
          /\ Closes(v) \in Items(down) <=> Closes(v) \in Items(down')
    BY <1>1, <2>2
  <2>4. CASE Head(down) = Shows(w)
    <3>1. known'[w] = "open" /\ (Closes(w) \in Items(down) => Closes(w) \in Items(down'))
          /\ Shows(w) \in Items(down)
      BY <1>1, <1>2, <2>2, <2>4
    <3> QED BY <1>2, <2>1, <2>3, <3>1 DEF KnownInv
  <2>5. CASE Head(down) = Closes(w)
    <3>1. known'[w] = "closed" /\ window[w] = "gone" /\ Shows(w) \notin Items(down')
      BY <1>1, <1>2, <2>5
    <3> QED BY <1>2, <2>1, <2>3, <3>1 DEF KnownInv
  <2> QED BY <2>4, <2>5
<1> QED BY <1>1, <1>3, <1>4, <1>5, <1>6, <1>7 DEF CaptureInv

\* The end of a batch: the handles of closed windows are dropped.
LEMMA DoneStep ==
  ASSUME PartnersAssumption, CaptureInv, Live, down # <<>>, down' = Tail(down), child' = child,
         window' = window, handles' = handles, frames' = frames, asked' = asked,
         Head(down) = Cap!Done,
         known' = [w \in CaptureWindows |-> IF known[w] = "closed" THEN None ELSE known[w]],
         up' = up \o Cap!SetToSeq({Cap!Request("drop", w) : w \in {v \in CaptureWindows : known[v] = "closed"}})
  PROVE  CaptureInv'
<1>i. CapTypes /\ RequestsInv /\ HandleInv /\ EndsInv /\ UnboundInv /\ KnownInv
  BY DEF CaptureInv
<1>n. None \notin {"open", "closed"}
  BY CapNone
<1> DEFINE ws == {v \in CaptureWindows : known[v] = "closed"}
           s == Cap!SetToSeq({Cap!Request("drop", w) : w \in ws})
<1>1. /\ Cap!Bound /\ Live' /\ down' \in Seq(CapEvent) /\ ClosedInv' /\ ProcessInv' /\ EndedInv'
      /\ Items(down) = {Head(down)} \cup Items(down')
      /\ \A f \in CaptureFrames : ~IsEnd(Head(down), f) =>
           (Never(down, f) => Never(down', f)) /\ (Once(down, f) => Once(down', f))
  BY EventTaken
<1>2. ws \in SUBSET CaptureWindows /\ \A w \in ws : window[w] = "gone"
  BY <1>i DEF HandleInv
<1>3. up' = up \o s
  OBVIOUS
<1> HIDE DEF ws
<1>4. s \in Seq(CapRequest) /\ \A r \in Items(s) : r.rq = "drop" /\ r.of \in ws
  BY <1>2, DropsRequested
<1> HIDE DEF s
<1>5. \A r \in Items(s) : /\ r.rq \in {"copy", "destroy", "drop"}
                          /\ r.rq = "destroy" => asked'[r.of] = None
                          /\ r.rq = "drop" => window'[r.of] = "gone"
  BY <1>2, <1>4
<1>6. /\ up' \in Seq(CapRequest) /\ RequestsInv'
      /\ (up = <<>> => (up' = <<>> \/ Head(up') # Cap!Bind))
      /\ (up # <<>> => up' # <<>> /\ Head(up') = Head(up))
  BY <1>3, <1>4, <1>5, RequestsFollow
<1>7. /\ known' \in HandlesType
      /\ \A v \in CaptureWindows : known'[v] = "closed" => known[v] = "closed"
      /\ \A v \in CaptureWindows : known'[v] = "open" <=> known[v] = "open"
  BY <1>i, <1>n DEF CapTypes, HandlesType
<1>8. CapTypes'
  BY <1>1, <1>6, <1>7, <1>i DEF CapTypes
<1>9. UnboundInv'
  BY <1>1, <1>6 DEF UnboundInv, Cap!Bound
<1>10. HandleInv'
  BY <1>7, <1>i DEF HandleInv
<1>11. EndsInv'
  <2>1. \A f \in CaptureFrames : ~IsEnd(Head(down), f)
    BY EventKinds DEF IsEnd
  <2> QED BY <1>1, <1>i, <2>1 DEF EndsInv
<1>12. KnownInv'
  <2>1. \A v \in CaptureWindows :
          /\ Shows(v) \in Items(down) <=> Shows(v) \in Items(down')
          /\ Closes(v) \in Items(down) <=> Closes(v) \in Items(down')
    BY <1>1, EventKinds
  <2> QED BY <1>1, <1>7, <1>i, <2>1 DEF KnownInv
<1> QED BY <1>1, <1>6, <1>8, <1>9, <1>10, <1>11, <1>12 DEF CaptureInv

\* An event of a frame: it is copied, or over.
LEMMA FrameEventStep ==
  ASSUME PartnersAssumption, CaptureInv, Live, down # <<>>, down' = Tail(down), child' = child,
         window' = window, handles' = handles, frames' = frames, known' = known,
         NEW f \in CaptureFrames, NEW k, k \in {"buffer", "failed", "ready"}, Head(down) = Cap!Event(k, f),
         \/ asked[f] = None /\ asked' = asked /\ up' = up
         \/ /\ asked[f] # None /\ k = "buffer"
            /\ asked' = [asked EXCEPT ![f].state = "copying"] /\ up' = Append(up, Cap!Request("copy", f))
         \/ /\ asked[f] # None
            /\ asked' = [asked EXCEPT ![f] = None] /\ up' = Append(up, Cap!Request("destroy", f))
  PROVE  CaptureInv'
<1>i. CapTypes /\ RequestsInv /\ HandleInv /\ EndsInv /\ UnboundInv /\ KnownInv
  BY DEF CaptureInv
<1>0. up \in Seq(CapRequest) /\ asked \in AskedType
  BY <1>i DEF CapTypes
<1>1. /\ Cap!Bound /\ Live' /\ down' \in Seq(CapEvent) /\ ClosedInv' /\ ProcessInv' /\ EndedInv'
      /\ Items(down) = {Head(down)} \cup Items(down')
      /\ \A g \in CaptureFrames : ~IsEnd(Head(down), g) =>
           (Never(down, g) => Never(down', g)) /\ (Once(down, g) => Once(down', g))
  BY EventTaken
<1>2. \A g \in CaptureFrames : g # f \/ k = "buffer" => ~IsEnd(Head(down), g)
  BY EventKinds DEF IsEnd
<1>3. /\ asked' \in AskedType /\ \A g \in CaptureFrames : g # f => asked'[g] = asked[g]
      /\ \A g \in CaptureFrames : asked[g] = None => asked'[g] = None
      /\ asked'[f] # None => k = "buffer" /\ asked[f] # None
  <2>1. CASE asked[f] = None /\ asked' = asked
    BY <1>0, <2>1
  <2>2. CASE asked[f] # None /\ k = "buffer" /\ asked' = [asked EXCEPT ![f].state = "copying"]
    <3>1. asked[f] \in [target : Targets, state : {"asked", "copying"}]
      BY <1>0, <2>2 DEF AskedType
    <3>2. [asked[f] EXCEPT !.state = "copying"] \in [target : Targets, state : {"asked", "copying"}]
      BY <3>1
    <3>3. asked' = [asked EXCEPT ![f] = [asked[f] EXCEPT !.state = "copying"]]
      BY <2>2
    <3> DEFINE a == [asked[f] EXCEPT !.state = "copying"]
    <3>4. a \in [target : Targets, state : {"asked", "copying"}] /\ asked' = [asked EXCEPT ![f] = a]
      BY <3>2, <3>3
    <3> HIDE DEF a
    <3> QED BY <1>0, <2>2, <3>4 DEF AskedType
  <2>3. CASE asked[f] # None /\ asked' = [asked EXCEPT ![f] = None]
    BY <1>0, <2>3 DEF AskedType
  <2> QED BY <2>1, <2>2, <2>3
<1>4. /\ up' \in Seq(CapRequest) /\ RequestsInv'
      /\ (up = <<>> => (up' = <<>> \/ Head(up') # Cap!Bind))
      /\ (up # <<>> => up' # <<>> /\ Head(up') = Head(up))
  <2>1. CASE asked' = asked /\ up' = up
    BY <1>0, <1>i, <2>1 DEF RequestsInv
  <2>2. ASSUME NEW r, r \in {"copy", "destroy"}, up' = Append(up, Cap!Request(r, f)),
               r = "destroy" => asked'[f] = None
        PROVE  <1>4!:
    <3> DEFINE s == <<Cap!Request(r, f)>>
    <3>1. /\ up' = up \o s /\ s \in Seq(CapRequest) /\ Items(s) = {Cap!Request(r, f)}
          /\ Cap!Request(r, f).rq = r /\ Cap!Request(r, f).of = f
      BY <1>0, <2>2, OneRequest
    <3> HIDE DEF s
    <3>2. \A e \in Items(s) : /\ e.rq \in {"copy", "destroy", "drop"}
                              /\ e.rq = "destroy" => asked'[e.of] = None
                              /\ e.rq = "drop" => window'[e.of] = "gone"
      BY <2>2, <3>1
    <3> QED BY <1>3, <3>1, <3>2, RequestsFollow
  <2>3. CASE up' = Append(up, Cap!Request("copy", f))
    BY <2>2, <2>3
  <2>4. CASE asked' = [asked EXCEPT ![f] = None] /\ up' = Append(up, Cap!Request("destroy", f))
    <3>1. asked'[f] = None
      BY <1>0, <2>4 DEF AskedType
    <3> QED BY <2>2, <2>4, <3>1
  <2> QED BY <2>1, <2>3, <2>4
<1>5. CapTypes'
  BY <1>1, <1>3, <1>4, <1>i DEF CapTypes
<1>6. UnboundInv' /\ HandleInv'
  BY <1>1, <1>4, <1>i DEF UnboundInv, Cap!Bound, HandleInv
<1>7. EndsInv'
  <2> SUFFICES ASSUME NEW g \in CaptureFrames, asked'[g] # None
               PROVE  IF frames[g] # None /\ frames[g].terminal THEN Once(down', g) ELSE Never(down', g)
    BY DEF EndsInv
  <2>1. asked[g] # None /\ ~IsEnd(Head(down), g)
    BY <1>2, <1>3
  <2> QED BY <1>1, <1>i, <2>1 DEF EndsInv
<1>8. KnownInv'
  <2>1. \A v \in CaptureWindows :
          /\ Shows(v) \in Items(down) <=> Shows(v) \in Items(down')
          /\ Closes(v) \in Items(down) <=> Closes(v) \in Items(down')
    BY <1>1, EventKinds
  <2> QED BY <1>1, <1>i, <2>1 DEF KnownInv
<1> QED BY <1>1, <1>4, <1>5, <1>6, <1>7, <1>8 DEF CaptureInv

LEMMA TakeEventStep ==
  ASSUME PartnersAssumption, CaptureInv, Cap!TakeEvent PROVE CaptureInv'
<1> DEFINE e == Head(down)
           st == [Cap!Here EXCEPT !.down = Tail(down)]
<1>1. /\ child.conn /\ child.proc = "running" /\ down # <<>> /\ child' = child /\ window' = window
      /\ \E usable \in BOOLEAN : Cap!Set(Cap!Taken(st, e, usable))
  BY DEF Cap!TakeEvent, Cap!Talks, Cap!Here
<1>2. PICK usable \in BOOLEAN : Cap!Set(Cap!Taken(st, e, usable))
  BY <1>1
<1>3. Live /\ e \in CapEvent
  BY <1>1, EventTaken DEF Live, CaptureInv, CapTypes
<1>4. /\ st.handles = handles /\ st.frames = frames /\ st.up = up /\ st.down = Tail(down)
      /\ st.known = known /\ st.asked = asked
  BY DEF Cap!Here
<1> HIDE DEF st, e
<1>5. CASE e = Cap!Done
  <2>1. e.ev = "done"
    BY <1>5, EventKinds
  <2> DEFINE ws0 == {v \in CaptureWindows : st.known[v] = "closed"}
             ws == {v \in CaptureWindows : known[v] = "closed"}
             kn == [w \in CaptureWindows |-> IF st.known[w] = "closed" THEN None ELSE st.known[w]]
             s == Cap!SetToSeq({Cap!Request("drop", w) : w \in ws0})
  <2>2. Cap!Taken(st, e, usable) = [st EXCEPT !.known = kn, !.up = st.up \o s]
    BY <2>1 DEF Cap!Taken
  <2>3. kn = [w \in CaptureWindows |-> IF known[w] = "closed" THEN None ELSE known[w]]
    BY <1>4
  <2>4. ws0 = ws
    BY <1>4
  <2> HIDE DEF ws0, ws, kn
  <2>5. s = Cap!SetToSeq({Cap!Request("drop", w) : w \in ws})
    BY <2>4
  <2> HIDE DEF s
  <2>6. /\ down' = Tail(down) /\ handles' = handles /\ frames' = frames /\ asked' = asked
        /\ known' = kn /\ up' = up \o s
    BY <1>2, <1>4, <2>2 DEF Cap!Set, Cap!Here, st
  <2> QED BY <1>1, <1>3, <1>5, <2>3, <2>5, <2>6, DoneStep DEF e, ws
<1>6. ASSUME NEW w \in CaptureWindows, e = Shows(w) \/ e = Closes(w) PROVE CaptureInv'
  <2> DEFINE to == IF e = Shows(w) THEN "open" ELSE "closed"
  <2>1. e.of = w /\ e.ev = (IF e = Shows(w) THEN "toplevel" ELSE "closed")
    BY <1>6, EventKinds
  <2>2. Cap!Taken(st, e, usable) = [st EXCEPT !.known = [st.known EXCEPT ![w] = to]]
    BY <2>1 DEF Cap!Taken
  <2>3. /\ down' = Tail(down) /\ handles' = handles /\ frames' = frames /\ asked' = asked /\ up' = up
        /\ known' = [known EXCEPT ![w] = to]
    BY <1>2, <1>4, <2>2 DEF Cap!Set, Cap!Here, st
  <2> QED BY <1>1, <1>3, <1>6, <2>3, WindowEventStep DEF e
<1>7. ASSUME NEW f \in CaptureFrames, NEW k \in {"buffer", "failed", "ready"}, e = Cap!Event(k, f)
      PROVE  CaptureInv'
  <2>1. e.of = f /\ e.ev = k
    BY <1>7, EventKinds
  <2>2. Cap!Taken(st, e, usable) = Cap!FrameTaken(st, e, usable)
    BY <2>1 DEF Cap!Taken
  <2>3. CASE asked[f] = None
    <3>1. Cap!Taken(st, e, usable) = st
      BY <1>4, <2>1, <2>2, <2>3 DEF Cap!FrameTaken
    <3>2. /\ down' = Tail(down) /\ handles' = handles /\ frames' = frames /\ known' = known
          /\ asked' = asked /\ up' = up
      BY <1>2, <1>4, <3>1 DEF Cap!Set, Cap!Here, st
    <3> QED BY <1>1, <1>3, <1>7, <2>3, <3>2, FrameEventStep DEF e
  <2>4. CASE asked[f] # None /\ k = "buffer" /\ usable
    <3>1. Cap!Taken(st, e, usable) =
            [st EXCEPT !.asked = [st.asked EXCEPT ![f].state = "copying"],
                       !.up = Append(st.up, Cap!Request("copy", f))]
      BY <1>4, <2>1, <2>2, <2>4 DEF Cap!FrameTaken
    <3>2. /\ down' = Tail(down) /\ handles' = handles /\ frames' = frames /\ known' = known
          /\ asked' = [asked EXCEPT ![f].state = "copying"] /\ up' = Append(up, Cap!Request("copy", f))
      BY <1>2, <1>4, <3>1 DEF Cap!Set, Cap!Here, st
    <3> QED BY <1>1, <1>3, <1>7, <2>4, <3>2, FrameEventStep DEF e
  <2>5. CASE asked[f] # None /\ ~(k = "buffer" /\ usable)
    <3>1. Cap!Taken(st, e, usable) =
            [st EXCEPT !.asked = [st.asked EXCEPT ![f] = None],
                       !.up = Append(st.up, Cap!Request("destroy", f))]
      BY <1>4, <2>1, <2>2, <2>5 DEF Cap!FrameTaken
    <3>2. /\ down' = Tail(down) /\ handles' = handles /\ frames' = frames /\ known' = known
          /\ asked' = [asked EXCEPT ![f] = None] /\ up' = Append(up, Cap!Request("destroy", f))
      BY <1>2, <1>4, <3>1 DEF Cap!Set, Cap!Here, st
    <3> QED BY <1>1, <1>3, <1>7, <2>5, <3>2, FrameEventStep DEF e
  <2> QED BY <2>3, <2>4, <2>5
<1> QED BY <1>3, <1>5, <1>6, <1>7, EventSorts

LEMMA CaptureStep == PartnersAssumption /\ CaptureInv /\ [Cap!Next]_capVars => CaptureInv'
<1> SUFFICES ASSUME PartnersAssumption, CaptureInv, [Cap!Next]_capVars PROVE CaptureInv'
  OBVIOUS
<1>1. CASE UNCHANGED capVars
  BY <1>1 DEF capVars, CaptureInv, CapTypes, ProcessInv, EndedInv, Live, RequestsInv, HandleInv, EndsInv,
              UnboundInv, ClosedInv, KnownInv, Cap!Bound
<1>2. CASE \/ Cap!Spawn \/ Cap!RestartTimer \/ Cap!ChildExits \/ Cap!OtherChildExits
           \/ Cap!ConnectionLost \/ Cap!HangUp \/ Cap!Attach \/ Cap!ChildExited \/ Cap!Shutdown
  BY <1>2, ProcessSteps
<1>3. ASSUME NEW w \in CaptureWindows, Cap!WindowGone(w) \/ Cap!WindowShown(w) PROVE CaptureInv'
  BY <1>3, WindowGoneStep, WindowShownStep
<1>4. CASE Cap!ReadBind
  BY <1>4, ReadBindStep
<1>5. CASE Cap!ReadCapture
  BY <1>5, ReadCaptureStep
<1>6. CASE Cap!ReadCopy
  BY <1>6, ReadCopyStep
<1>7. CASE Cap!ReadDestroy \/ Cap!ReadDrop
  BY <1>7, ReadDestroyStep, ReadDropStep
<1>8. ASSUME NEW f \in CaptureFrames, Cap!CancelFrame(f) \/ \E t \in Targets : Cap!Capture(f, t)
      PROVE  CaptureInv'
  BY <1>8, CancelFrameStep, CaptureStepOf
<1>9. CASE Cap!TakeEvent
  BY <1>9, TakeEventStep
<1> QED BY <1>1, <1>2, <1>3, <1>4, <1>5, <1>6, <1>7, <1>8, <1>9 DEF Cap!Next, Cap!Targets, Targets

\* What the child and the compositor know of each other.
LEMMA CaptureSound ==
  PartnersAssumption /\ CaptureInv =>
    Cap!TypeOK /\ Cap!EndsOnce /\ Cap!GoneIsOver /\ Cap!Supervised /\ Cap!WindowsKnown
<1> SUFFICES ASSUME PartnersAssumption, CaptureInv
             PROVE  Cap!TypeOK /\ Cap!EndsOnce /\ Cap!GoneIsOver /\ Cap!Supervised /\ Cap!WindowsKnown
  OBVIOUS
<1>i. CapTypes /\ ProcessInv /\ EndedInv /\ HandleInv /\ EndsInv /\ KnownInv
  BY DEF CaptureInv
<1>1. Cap!TypeOK
  BY <1>i DEF Cap!TypeOK, CapTypes, ChildType, HandlesType, FramesType, AskedType, Cap!Targets, Targets
<1>2. Cap!EndsOnce
  <2> SUFFICES ASSUME child.conn, child.proc = "running", NEW f \in CaptureFrames, asked[f] # None
               PROVE  Cap!Ending(f) = IF frames[f] # None /\ frames[f].terminal THEN 1 ELSE 0
    BY DEF Cap!EndsOnce
  <2>1. Cap!Ending(f) = Cardinality(Ends(down, f))
    BY DEF Cap!Ending, Cap!Cardinality, Cardinality, Ends, IsEnd
  <2>2. Never(down, f) => Cardinality(Ends(down, f)) = 0
    BY FS_EmptySet DEF Never
  <2>3. Once(down, f) => Cardinality(Ends(down, f)) = 1
    BY FS_Singleton DEF Once
  <2>4. IF frames[f] # None /\ frames[f].terminal THEN Once(down, f) ELSE Never(down, f)
    BY <1>i DEF EndsInv
  <2> HIDE DEF frames
  <2> QED BY <2>1, <2>2, <2>3, <2>4
<1>3. Cap!GoneIsOver
  <2> SUFFICES ASSUME NEW f \in CaptureFrames, frames[f] # None, frames[f].target # Screen, ~frames[f].terminal
               PROVE  window[frames[f].target] = "open"
    BY DEF Cap!GoneIsOver
  <2>1. frames[f].target \in Targets
    BY <1>i DEF CapTypes, FramesType
  <2>2. handles[frames[f].target] = "open" /\ frames[f].target \in CaptureWindows
    BY <1>i, <2>1 DEF HandleInv, Targets
  <2> QED BY <1>i, <2>2 DEF HandleInv
<1>4. Cap!Supervised
  BY <1>i, ClearedIs DEF Cap!Supervised, ProcessInv, EndedInv
<1>5. Cap!WindowsKnown
  <2> SUFFICES ASSUME child.conn, child.proc = "running", up = <<>>, down = <<>>
               PROVE  {w \in CaptureWindows : known[w] = "open"} = Cap!Open
    BY DEF Cap!WindowsKnown
  <2>1. Live /\ Cap!Bound /\ Items(down) = {}
    BY ItemsNone DEF Live, Cap!Bound
  <2>2. \A w \in CaptureWindows : window[w] = "open" <=> known[w] = "open"
    BY <1>i, <2>1 DEF KnownInv
  <2> QED BY <2>2 DEF Cap!Open
<1> QED BY <1>1, <1>2, <1>3, <1>4, <1>5

HIDE DEF child, window, handles, frames, up, down, known, asked

-----------------------------------------------------------------------------
(* The portal: its calls, sessions, screenshots and frames, as a record `st`. *)

source == v7
connected == v8

Sources == Screens \cup Toplevels
FrameIds == (Paths \cup Handles) \X {0, 1}
FrameRecords == [target : Sources, copying : BOOLEAN, again : BOOLEAN]
Parts == {"calls", "owed", "wrong", "sessions", "frames", "timers"}

Typed(st) ==
  /\ DOMAIN st = Parts
  /\ st.calls \in [Handles -> {None} \cup CallRecords]
  /\ st.sessions \in [Paths -> {None} \cup SessionRecords]
  /\ st.frames \in [FrameIds -> {None} \cup FrameRecords]

\* A call belongs to a session that goes on, a dialog to one without a source, and
\* the timer that replies to a call that waits for nothing else.
CallKept(st, h) ==
  st.calls[h] # None =>
    /\ st.calls[h].kind \in {"create", "select", "start"} <=> st.calls[h].path # None
    /\ st.calls[h].path # None => st.sessions[st.calls[h].path] # None
    /\ st.calls[h].kind \in {"create", "select"} => ~st.calls[h].dialog
    /\ st.calls[h].kind = "start" =>
         /\ st.sessions[st.calls[h].path].stage = "starting"
         /\ st.sessions[st.calls[h].path].request = h
         /\ st.calls[h].dialog => st.sessions[st.calls[h].path].source = None
CallsKept(st) ==
  /\ st.wrong = FALSE /\ st.owed = {h \in Handles : st.calls[h] # None}
  /\ \A h \in Handles : CallKept(st, h)
  /\ \A h \in Handles : Por!Reply(h) \in st.timers =>
       st.calls[h] # None /\ st.calls[h].kind \in {"create", "select"}

\* A session has a source before a frame or a stream, and when its picker leaves
\* neither of them; but for one whose path was used again while a timer was running.
\* None has a frame or a stream before it starts.
Right(s, p, timers) ==
  /\ s.again \/ (s.source = None => s.capture = None /\ ~s.stream)
  /\ s.stage \in {"created", "selected"} => s.source = None /\ s.capture = None /\ ~s.stream
  /\ s.stage = "active" => s.stream
  /\ Por!Settle(p) \in timers => s.again \/ (s.source # None /\ s.capture = None /\ ~s.stream)
  /\ s.capture # None => s.capture[1] = p

\* While a session starts it has the call that started it.
Begins(st, p) ==
  st.sessions[p].stage = "starting" =>
    /\ st.sessions[p].request # None /\ st.calls[st.sessions[p].request] # None
    /\ st.calls[st.sessions[p].request].kind = "start"
    /\ st.calls[st.sessions[p].request].path = p

SessionsKept(st) ==
  \A p \in Paths : st.sessions[p] # None => Right(st.sessions[p], p, st.timers) /\ Begins(st, p)

\* A frame is that of the session or screenshot that asked for it, unless it is one
\* of those that a session of a path used again does not wait for any longer.
Due(st, k) ==
  \/ k[1] \in Paths /\ st.frames[k].again
  \/ k[1] \in Paths /\ st.sessions[k[1]] # None /\ st.sessions[k[1]].capture = k
  \/ k[1] \in Handles /\ k[2] = 0 /\ st.calls[k[1]] # None /\ st.calls[k[1]].kind = "shot"

FramesKept(st) == \A k \in FrameIds : st.frames[k] # None => Due(st, k)

\* What waits for a frame has it, but for the sessions `ps` and screenshots `hs`,
\* which are about to end.
Given(s, f) ==
  s.capture # None => /\ f[s.capture] # None
                      /\ IF s.again THEN f[s.capture].again ELSE f[s.capture].target = s.source

Served(st, ps, hs) ==
  /\ \A p \in Paths \ ps : st.sessions[p] # None => Given(st.sessions[p], st.frames)
  /\ \A h \in Handles \ hs : st.calls[h] # None /\ st.calls[h].kind = "shot" /\ ~st.calls[h].dialog =>
       st.frames[<<h, 0>>] # None

Kept(st, ps, hs) ==
  Typed(st) /\ CallsKept(st) /\ SessionsKept(st) /\ FramesKept(st) /\ Served(st, ps, hs)

PortalInv ==
  /\ Kept(Por!Here, {}, {})
  /\ source \in [Sources -> {"new", "live", "closed", "gone"}] /\ connected \in BOOLEAN

\* The operators that change a state keep its parts, but those they name.
LEMMA DroppedIs ==
  ASSUME NEW st, DOMAIN st = Parts, NEW ks
  PROVE  /\ DOMAIN Por!Dropped(st, ks) = Parts
         /\ Por!Dropped(st, ks).calls = st.calls /\ Por!Dropped(st, ks).owed = st.owed
         /\ Por!Dropped(st, ks).wrong = st.wrong /\ Por!Dropped(st, ks).sessions = st.sessions
         /\ Por!Dropped(st, ks).timers = st.timers
         /\ Por!Dropped(st, ks).frames = [k \in FrameIds |-> IF k \in ks THEN None ELSE st.frames[k]]
BY DEF Por!Dropped, Parts, FrameIds, Por!FrameIds, Por!Owners

LEMMA AnsweredIs ==
  ASSUME NEW st, DOMAIN st = Parts, NEW hs
  PROVE  /\ DOMAIN Por!Answered(st, hs) = Parts
         /\ Por!Answered(st, hs).calls = [h \in Handles |-> IF h \in hs THEN None ELSE st.calls[h]]
         /\ Por!Answered(st, hs).owed = st.owed \ hs
         /\ Por!Answered(st, hs).wrong = (st.wrong \/ ~(hs \subseteq st.owed))
         /\ Por!Answered(st, hs).timers = st.timers \ {Por!Reply(h) : h \in hs}
         /\ Por!Answered(st, hs).sessions = st.sessions /\ Por!Answered(st, hs).frames = st.frames
BY DEF Por!Answered, Parts

LEMMA ClosedSessionsIs ==
  ASSUME NEW st, DOMAIN st = Parts, NEW ps
  PROVE  /\ DOMAIN Por!CloseSessions(st, ps) = Parts
         /\ Por!CloseSessions(st, ps).calls =
              [h \in Handles |-> IF h \in Por!CallsOf(st, ps) THEN None ELSE st.calls[h]]
         /\ Por!CloseSessions(st, ps).owed = st.owed \ Por!CallsOf(st, ps)
         /\ Por!CloseSessions(st, ps).wrong = (st.wrong \/ ~(Por!CallsOf(st, ps) \subseteq st.owed))
         /\ Por!CloseSessions(st, ps).timers = st.timers \ {Por!Reply(h) : h \in Por!CallsOf(st, ps)}
         /\ Por!CloseSessions(st, ps).sessions = [p \in Paths |-> IF p \in ps THEN None ELSE st.sessions[p]]
         /\ Por!CloseSessions(st, ps).frames =
              [k \in FrameIds |-> IF k \in Por!CapturesOf(st, ps) THEN None ELSE st.frames[k]]
<1> DEFINE hs == Por!CallsOf(st, ps)
           d == Por!Dropped(st, Por!CapturesOf(st, ps))
           a == Por!Answered(d, hs)
<1>1. Por!CloseSessions(st, ps) = [a EXCEPT !.sessions = [p \in Paths |-> IF p \in ps THEN None ELSE a.sessions[p]]]
  BY DEF Por!CloseSessions
<1> HIDE DEF hs
<1>2. /\ DOMAIN d = Parts /\ d.calls = st.calls /\ d.owed = st.owed /\ d.wrong = st.wrong
      /\ d.sessions = st.sessions /\ d.timers = st.timers
      /\ d.frames = [k \in FrameIds |-> IF k \in Por!CapturesOf(st, ps) THEN None ELSE st.frames[k]]
  BY DroppedIs
<1> HIDE DEF d
<1>3. /\ DOMAIN a = Parts /\ a.sessions = st.sessions /\ a.frames = d.frames
      /\ a.calls = [h \in Handles |-> IF h \in hs THEN None ELSE st.calls[h]]
      /\ a.owed = st.owed \ hs /\ a.wrong = (st.wrong \/ ~(hs \subseteq st.owed))
      /\ a.timers = st.timers \ {Por!Reply(h) : h \in hs}
  BY <1>2, AnsweredIs
<1> HIDE DEF a
<1> DEFINE z == [a EXCEPT !.sessions = [p \in Paths |-> IF p \in ps THEN None ELSE a.sessions[p]]]
<1>4. /\ DOMAIN z = Parts /\ z.calls = a.calls /\ z.owed = a.owed /\ z.wrong = a.wrong
      /\ z.timers = a.timers /\ z.frames = a.frames
      /\ z.sessions = [p \in Paths |-> IF p \in ps THEN None ELSE a.sessions[p]]
  BY <1>3 DEF Parts
<1> HIDE DEF z
<1>5. z.sessions = [p \in Paths |-> IF p \in ps THEN None ELSE st.sessions[p]]
  BY <1>3, <1>4
<1> QED BY <1>1, <1>2, <1>3, <1>4, <1>5 DEF z, hs

\* The parts of a state are all there is to it.
LEMMA SameKept ==
  ASSUME NEW st, NEW to, DOMAIN to = Parts, NEW ps, NEW hs, Kept(st, ps, hs),
         to.calls = st.calls, to.owed = st.owed, to.wrong = st.wrong, to.sessions = st.sessions,
         to.frames = st.frames, to.timers = st.timers
  PROVE  Kept(to, ps, hs)
<1>1. Typed(to)
  BY DEF Kept, Typed
<1>2. CallsKept(to)
  BY DEF Kept, CallsKept, CallKept
<1>3. SessionsKept(to)
  BY DEF Kept, SessionsKept, Begins
<1>4. FramesKept(to)
  BY DEF Kept, FramesKept, Due
<1>5. Served(to, ps, hs)
  BY DEF Kept, Served
<1> QED BY <1>1, <1>2, <1>3, <1>4, <1>5 DEF Kept

LEMMA PortalNone ==
  ASSUME PartnersAssumption
  PROVE  /\ None \notin CallRecords /\ None \notin SessionRecords /\ None \notin FrameRecords
         /\ None \notin FrameIds /\ None \notin Paths /\ None \notin Handles /\ None \notin Sources
         /\ Paths \cap Handles = {}
BY DEF PartnersAssumption, FrameRecords, Sources, FrameIds

LEMMA TimerKinds ==
  \A h, g, p, q : /\ Por!Reply(h) = Por!Reply(g) => h = g
                  /\ Por!Settle(p) = Por!Settle(q) => p = q
                  /\ Por!Limit(p) = Por!Limit(q) => p = q
                  /\ Por!Reply(h) # Por!Settle(p) /\ Por!Reply(h) # Por!Limit(p)
                  /\ Por!Settle(p) # Por!Limit(q)
BY DEF Por!Reply, Por!Settle, Por!Limit

\* closeSession(): everything of the sessions ends, and nothing else.
LEMMA CloseSessionsKeeps ==
  ASSUME PartnersAssumption, NEW st, NEW xs, NEW hs, NEW ps \in SUBSET Paths, Kept(st, xs, hs)
  PROVE  Kept(Por!CloseSessions(st, ps), xs \ ps, hs)
<1> DEFINE to == Por!CloseSessions(st, ps)
           cs == Por!CallsOf(st, ps)
           ks == Por!CapturesOf(st, ps)
<1>n. /\ None \notin CallRecords /\ None \notin SessionRecords /\ None \notin FrameRecords
      /\ None \notin FrameIds /\ None \notin Paths /\ None \notin Handles /\ Paths \cap Handles = {}
  BY PortalNone
<1>i. Typed(st) /\ CallsKept(st) /\ SessionsKept(st) /\ FramesKept(st) /\ Served(st, xs, hs)
  BY DEF Kept
<1>0. DOMAIN st = Parts
  BY <1>i DEF Typed
<1>1. /\ DOMAIN to = Parts
      /\ to.calls = [h \in Handles |-> IF h \in cs THEN None ELSE st.calls[h]]
      /\ to.owed = st.owed \ cs
      /\ to.wrong = (st.wrong \/ ~(cs \subseteq st.owed))
      /\ to.timers = st.timers \ {Por!Reply(h) : h \in cs}
      /\ to.sessions = [p \in Paths |-> IF p \in ps THEN None ELSE st.sessions[p]]
      /\ to.frames = [k \in FrameIds |-> IF k \in ks THEN None ELSE st.frames[k]]
  BY <1>0, ClosedSessionsIs
<1>2. \A h \in Handles : h \in cs <=> st.calls[h] # None /\ st.calls[h].path \in ps
  BY DEF Por!CallsOf
<1>3. \A k : k \in ks <=> k # None /\ \E p \in ps : st.sessions[p] # None /\ st.sessions[p].capture = k
  BY DEF Por!CapturesOf
<1>4. cs \subseteq Handles
  BY DEF Por!CallsOf
<1> HIDE DEF to, cs, ks
<1>5. /\ \A h \in Handles : to.calls[h] = IF h \in cs THEN None ELSE st.calls[h]
      /\ \A p \in Paths : to.sessions[p] = IF p \in ps THEN None ELSE st.sessions[p]
      /\ \A k \in FrameIds : to.frames[k] = IF k \in ks THEN None ELSE st.frames[k]
      /\ \A x : x \in to.timers => x \in st.timers
      /\ \A h \in cs : Por!Reply(h) \notin to.timers
  BY <1>1
<1>6. Typed(to)
  BY <1>1, <1>i DEF Typed
<1>t. /\ \A h \in Handles : st.calls[h] # None => st.calls[h] \in CallRecords
      /\ \A p \in Paths : st.sessions[p] # None => st.sessions[p] \in SessionRecords
  BY <1>i DEF Typed
<1>p. \A h \in Handles : st.calls[h] # None => st.calls[h].path \in Paths \cup {None}
  BY <1>t DEF CallRecords
<1>q. \A p \in Paths : st.sessions[p] # None => /\ st.sessions[p].capture \in FrameIds \cup {None}
                                               /\ st.sessions[p].request \in Handles \cup {None}
  BY <1>t DEF SessionRecords, FrameIds
<1>7. CallsKept(to)
  <2>1. to.wrong = FALSE /\ to.owed = {h \in Handles : to.calls[h] # None}
    <3>1. cs \subseteq st.owed
      BY <1>2, <1>4, <1>i DEF CallsKept, CallKept
    <3>2. st.wrong = FALSE /\ st.owed = {h \in Handles : st.calls[h] # None}
      BY <1>i DEF CallsKept, CallKept
    <3>3. to.wrong = FALSE
      BY <1>1, <3>1, <3>2
    <3>4. to.owed = {h \in Handles : to.calls[h] # None}
      BY <1>1, <1>5, <3>2
    <3> QED BY <3>3, <3>4
  <2>2. ASSUME NEW h \in Handles, to.calls[h] # None
        PROVE  /\ h \notin cs /\ to.calls[h] = st.calls[h] /\ st.calls[h] # None
               /\ st.calls[h].path # None => to.sessions[st.calls[h].path] = st.sessions[st.calls[h].path]
    BY <1>2, <1>5, <1>p, <2>2
  <2>3. \A h \in Handles : Por!Reply(h) \in to.timers => h \notin cs /\ to.calls[h] = st.calls[h]
    BY <1>5
  <2>4. \A h \in Handles : to.calls[h] # None /\ to.calls[h].kind = "start" => st.calls[h].path # None
    BY <1>i, <2>2 DEF CallsKept, CallKept
  <2> QED BY SMTT(30), <1>5, <1>i, <2>1, <2>2, <2>3, <2>4 DEF CallsKept, CallKept
<1>8. SessionsKept(to)
  <2> SUFFICES ASSUME NEW p \in Paths, to.sessions[p] # None
               PROVE  /\ p \notin ps /\ to.sessions[p] = st.sessions[p] /\ st.sessions[p] # None
                      /\ st.sessions[p].stage = "starting" =>
                           to.calls[st.sessions[p].request] = st.calls[st.sessions[p].request]
    BY <1>5, <1>i DEF SessionsKept, Begins, Right
  <2>1. p \notin ps /\ to.sessions[p] = st.sessions[p] /\ st.sessions[p] # None
    BY <1>5
  <2>2. ASSUME st.sessions[p].stage = "starting"
        PROVE  to.calls[st.sessions[p].request] = st.calls[st.sessions[p].request]
    <3>1. /\ st.sessions[p].request \in Handles /\ st.calls[st.sessions[p].request].path = p
      BY <1>i, <1>q, <2>1, <2>2 DEF SessionsKept, Begins
    <3> QED BY <1>2, <1>5, <2>1, <3>1
  <2> QED BY <2>1, <2>2
<1>9. FramesKept(to)
  <2> SUFFICES ASSUME NEW k \in FrameIds, to.frames[k] # None
               PROVE  Due(to, k)
    BY DEF FramesKept
  <2>1. st.frames[k] # None /\ k \notin ks /\ k # None /\ to.frames[k] = st.frames[k]
    BY <1>5, <1>n
  <2>4. CASE k[1] \in Paths /\ st.frames[k].again
    BY <2>1, <2>4 DEF Due
  <2>2. CASE k[1] \in Paths /\ st.sessions[k[1]] # None /\ st.sessions[k[1]].capture = k
    <3>1. k[1] \notin ps
      BY <1>3, <2>1, <2>2
    <3> QED BY <1>5, <2>2, <3>1 DEF Due
  <2>3. CASE k[1] \in Handles /\ k[2] = 0 /\ st.calls[k[1]] # None /\ st.calls[k[1]].kind = "shot"
    <3>1. st.calls[k[1]].path = None
      BY <1>i, <2>3 DEF CallsKept, CallKept
    <3>2. k[1] \notin cs
      BY <1>2, <1>n, <2>3, <3>1
    <3> QED BY <1>5, <2>3, <3>2 DEF Due
  <2> QED BY <1>i, <2>1, <2>2, <2>3, <2>4 DEF FramesKept, Due
<1>10. Served(to, xs \ ps, hs)
  <2>1. ASSUME NEW p \in Paths \ (xs \ ps), to.sessions[p] # None, to.sessions[p].capture # None
        PROVE  Given(to.sessions[p], to.frames)
    <3>1. p \notin ps /\ to.sessions[p] = st.sessions[p] /\ st.sessions[p] # None /\ p \in Paths \ xs
      BY <1>5, <2>1
    <3>2. st.sessions[p].capture \in FrameIds /\ st.sessions[p].capture[1] = p
      BY <1>i, <1>q, <2>1, <3>1 DEF SessionsKept, Right
    <3>3. st.sessions[p].capture \notin ks
      <4> SUFFICES ASSUME NEW q \in ps, st.sessions[q] # None, st.sessions[q].capture = st.sessions[p].capture
                   PROVE  FALSE
        BY <1>3
      <4>1. st.sessions[q].capture[1] = q
        BY <1>i, <1>3, <2>1, <3>1, <3>2 DEF SessionsKept, Right
      <4> QED BY <3>1, <3>2, <4>1
    <3> QED BY <1>5, <1>i, <2>1, <3>1, <3>2, <3>3 DEF Served, Given
  <2>2. ASSUME NEW h \in Handles \ hs, to.calls[h] # None, to.calls[h].kind = "shot", ~to.calls[h].dialog
        PROVE  to.frames[<<h, 0>>] # None
    <3>1. h \notin cs /\ to.calls[h] = st.calls[h] /\ st.calls[h] # None
      BY <1>5, <2>2
    <3>2. <<h, 0>> \in FrameIds /\ st.frames[<<h, 0>>] # None
      BY <1>i, <2>2, <3>1 DEF Served, FrameIds
    <3>3. <<h, 0>> \notin ks
      <4> SUFFICES ASSUME NEW q \in ps, st.sessions[q] # None, st.sessions[q].capture = <<h, 0>>, <<h, 0>> # None
                   PROVE  FALSE
        BY <1>3
      <4>1. <<h, 0>>[1] = q
        BY ZenonT(30), <1>i DEF SessionsKept, Right
      <4> QED BY <1>n, <4>1
    <3> QED BY <1>5, <3>2, <3>3
  <2> QED BY <2>1, <2>2 DEF Served, Given
<1> QED BY <1>6, <1>7, <1>8, <1>9, <1>10 DEF Kept, to

-----------------------------------------------------------------------------
(* Single changes. *)

LEMMA KeptMore ==
  ASSUME NEW st, NEW xs, NEW ys, NEW hs, NEW gs, Kept(st, xs, hs), xs \subseteq ys, hs \subseteq gs
  PROVE  Kept(st, ys, gs)
<1>1. Served(st, ys, gs)
  BY DEF Kept, Served
<1> QED BY <1>1 DEF Kept

\* What was about to end has its frame after all, or waits for none.
LEMMA KeptLess ==
  ASSUME NEW st, NEW p, NEW h, Kept(st, {p}, {h}),
         p \in Paths /\ st.sessions[p] # None => Given(st.sessions[p], st.frames),
         h \in Handles /\ st.calls[h] # None /\ st.calls[h].kind = "shot" /\ ~st.calls[h].dialog =>
           st.frames[<<h, 0>>] # None
  PROVE  Kept(st, {}, {})
<1>1. Served(st, {}, {})
  BY DEF Kept, Served
<1> QED BY <1>1 DEF Kept

LEMMA TimersChanged ==
  ASSUME NEW st, NEW to, NEW xs, NEW hs, Kept(st, xs, hs), DOMAIN to = Parts,
         to.calls = st.calls, to.owed = st.owed, to.wrong = st.wrong, to.sessions = st.sessions,
         to.frames = st.frames,
         \A h \in Handles : Por!Reply(h) \in to.timers =>
           \/ Por!Reply(h) \in st.timers
           \/ st.calls[h] # None /\ st.calls[h].kind \in {"create", "select"},
         \A p \in Paths : Por!Settle(p) \in to.timers =>
           \/ Por!Settle(p) \in st.timers
           \/ st.sessions[p] = None
           \/ st.sessions[p].again
           \/ /\ st.sessions[p].source # None
              /\ st.sessions[p].capture = None /\ ~st.sessions[p].stream
  PROVE  Kept(to, xs, hs)
<1>i. Typed(st) /\ CallsKept(st) /\ SessionsKept(st) /\ FramesKept(st) /\ Served(st, xs, hs)
  BY DEF Kept
<1>1. Typed(to)
  BY <1>i DEF Typed
<1>2. CallsKept(to)
  BY <1>i DEF CallsKept, CallKept
<1>3. SessionsKept(to)
  BY SMTT(30), <1>i DEF SessionsKept, Right, Begins
<1>4. FramesKept(to) /\ Served(to, xs, hs)
  BY <1>i DEF FramesKept, Due, Served
<1> QED BY <1>1, <1>2, <1>3, <1>4 DEF Kept

\* A call changes its stage, or its dialog is closed or is that of no session.
LEMMA CallChanged ==
  ASSUME PartnersAssumption, NEW st, NEW to, NEW xs, NEW hs, Kept(st, xs, hs), DOMAIN to = Parts,
         NEW h \in Handles, h \in hs, NEW c \in CallRecords, st.calls[h] # None,
         to.calls = [st.calls EXCEPT ![h] = c], c.kind = st.calls[h].kind, c.path = st.calls[h].path,
         c.kind = "shot" \/ ~c.dialog,
         to.owed = st.owed, to.wrong = st.wrong, to.sessions = st.sessions, to.frames = st.frames,
         to.timers = st.timers
  PROVE  Kept(to, xs, hs)
<1>n. None \notin CallRecords
  BY PortalNone
<1>i. Typed(st) /\ CallsKept(st) /\ SessionsKept(st) /\ FramesKept(st) /\ Served(st, xs, hs)
  BY DEF Kept
<1>0. to.calls[h] = c /\ c # None /\ \A g \in Handles : g # h => to.calls[g] = st.calls[g]
  BY <1>i, <1>n DEF Typed
<1>1. Typed(to)
  BY <1>i DEF Typed
<1>2. CallsKept(to)
  <2>1. to.owed = {g \in Handles : to.calls[g] # None}
    BY SMTT(30), <1>0, <1>i DEF CallsKept, CallKept
  <2>2. \A g \in Handles : to.calls[g] # None => st.calls[g] # None /\ to.calls[g].kind = st.calls[g].kind
                                                /\ to.calls[g].path = st.calls[g].path
    BY <1>0
  <2>3. ASSUME NEW g \in Handles PROVE CallKept(to, g)
    <3>1. CallKept(st, g)
      BY <1>i DEF CallsKept
    <3>2. CASE g = h
      BY <1>0, <3>1, <3>2 DEF CallKept
    <3>3. CASE g # h
      BY <1>0, <3>1, <3>3 DEF CallKept
    <3> QED BY <3>2, <3>3
  <2>4. \A g \in Handles : Por!Reply(g) \in to.timers => to.calls[g] # None /\ to.calls[g].kind \in {"create", "select"}
    BY <1>0, <1>i DEF CallsKept
  <2> QED BY <1>i, <2>1, <2>3, <2>4 DEF CallsKept
<1>3. SessionsKept(to)
  <2>1. \A p \in Paths : st.sessions[p] # None => st.sessions[p].request \in Handles \cup {None}
    BY <1>i DEF Typed, SessionRecords
  <2> QED BY <1>0, <1>i, <2>1 DEF SessionsKept, Begins
<1>4. FramesKept(to) /\ Served(to, xs, hs)
  BY <1>0, <1>i DEF FramesKept, Due, Served
<1> QED BY <1>1, <1>2, <1>3, <1>4 DEF Kept

\* A call is added that is of no session, or the reply to it is due.
LEMMA CallAdded ==
  ASSUME PartnersAssumption, NEW st, NEW to, NEW xs, NEW hs, Kept(st, xs, hs), DOMAIN to = Parts,
         NEW h \in Handles, h \in hs, NEW c \in CallRecords, st.calls[h] = None,
         to.calls = [st.calls EXCEPT ![h] = c],
         \/ c.kind \in {"shot", "access", "file"} /\ c.path = None
         \/ c.kind \in {"create", "select"} /\ c.path \in Paths /\ st.sessions[c.path] # None /\ ~c.dialog,
         to.owed = st.owed \cup {h}, to.wrong = st.wrong, to.sessions = st.sessions, to.frames = st.frames,
         to.timers = st.timers
  PROVE  Kept(to, xs, hs)
<1>n. None \notin CallRecords /\ None \notin Paths
  BY PortalNone
<1>i. Typed(st) /\ CallsKept(st) /\ SessionsKept(st) /\ FramesKept(st) /\ Served(st, xs, hs)
  BY DEF Kept
<1>0. to.calls[h] = c /\ c # None /\ \A g \in Handles : g # h => to.calls[g] = st.calls[g]
  BY <1>i, <1>n DEF Typed
<1>1. Typed(to)
  BY <1>i DEF Typed
<1>2. CallsKept(to)
  <2>1. to.owed = {g \in Handles : to.calls[g] # None}
    BY <1>0, <1>i DEF CallsKept, CallKept
  <2>2. \A g \in Handles : g # h /\ to.calls[g] # None => st.calls[g] # None
    BY <1>0
  <2>3. c.path # None <=> c.kind \in {"create", "select"}
    BY <1>n
  <2>4. \A g \in Handles : Por!Reply(g) \in to.timers => g # h
    BY <1>i DEF CallsKept, CallKept
  <2> QED BY SMTT(30), <1>0, <1>i, <2>1, <2>2, <2>3, <2>4 DEF CallsKept, CallKept
<1>3. SessionsKept(to)
  <2>1. \A p \in Paths : st.sessions[p] # None => st.sessions[p].request \in Handles \cup {None}
    BY <1>i DEF Typed, SessionRecords
  <2> QED BY <1>0, <1>i, <2>1 DEF SessionsKept, Begins
<1>4. FramesKept(to) /\ Served(to, xs, hs)
  <2>1. FramesKept(to)
    BY <1>0, <1>i DEF FramesKept, Due
  <2>2. Served(to, xs, hs)
    BY <1>0, <1>i DEF Served
  <2> QED BY <2>1, <2>2
<1> QED BY <1>1, <1>2, <1>3, <1>4 DEF Kept

\* A session changes, not from nor to its start; it is one of those about to end.
LEMMA SessionChanged ==
  ASSUME PartnersAssumption, NEW st, NEW to, NEW xs, NEW hs, Kept(st, xs, hs), DOMAIN to = Parts,
         NEW p \in Paths, p \in xs, NEW s \in SessionRecords, st.sessions[p] # None,
         to.sessions = [st.sessions EXCEPT ![p] = s],
         \/ s.stage = st.sessions[p].stage /\ s.request = st.sessions[p].request
         \/ s.stage # "starting" /\ st.sessions[p].stage # "starting",
         Right(s, p, st.timers),
         \A n \in {0, 1} : st.frames[<<p, n>>] # None => s.capture = <<p, n>> \/ st.frames[<<p, n>>].again,
         \A h \in Handles : st.calls[h] # None /\ st.calls[h].path = p /\ st.calls[h].dialog => s.source = None,
         to.calls = st.calls, to.owed = st.owed, to.wrong = st.wrong, to.frames = st.frames,
         to.timers = st.timers
  PROVE  Kept(to, xs, hs)
<1>n. None \notin SessionRecords /\ Paths \cap Handles = {}
  BY PortalNone
<1>i. Typed(st) /\ CallsKept(st) /\ SessionsKept(st) /\ FramesKept(st) /\ Served(st, xs, hs)
  BY DEF Kept
<1>0. to.sessions[p] = s /\ s # None /\ \A q \in Paths : q # p => to.sessions[q] = st.sessions[q]
  BY <1>i, <1>n DEF Typed
<1>1. Typed(to)
  BY <1>i DEF Typed
<1>p. \A h \in Handles : st.calls[h] # None => st.calls[h].path \in Paths \cup {None}
  BY <1>i DEF Typed, CallRecords
<1>2. CallsKept(to)
  <2>1. ASSUME NEW h \in Handles, st.calls[h] # None, st.calls[h].kind = "start"
        PROVE  /\ to.sessions[st.calls[h].path].stage = "starting"
               /\ to.sessions[st.calls[h].path].request = h
               /\ st.calls[h].dialog => to.sessions[st.calls[h].path].source = None
    <3>1. /\ st.sessions[st.calls[h].path].stage = "starting"
          /\ st.sessions[st.calls[h].path].request = h /\ st.calls[h].path # None
          /\ st.calls[h].dialog => st.sessions[st.calls[h].path].source = None
      BY <1>i, <2>1 DEF CallsKept, CallKept
    <3>2. CASE st.calls[h].path = p
      BY <1>0, <2>1, <3>1, <3>2
    <3>3. CASE st.calls[h].path # p
      BY <1>0, <1>p, <2>1, <3>1, <3>3
    <3> QED BY <3>2, <3>3
  <2>2. \A h \in Handles : st.calls[h] # None /\ st.calls[h].path # None => to.sessions[st.calls[h].path] # None
    BY <1>0, <1>i, <1>p DEF CallsKept, CallKept
  <2>3. ASSUME NEW h \in Handles PROVE CallKept(to, h)
    <3>1. CallKept(st, h)
      BY <1>i DEF CallsKept
    <3> QED BY SMTT(30), <2>1, <2>2, <3>1 DEF CallKept
  <2> QED BY <1>i, <2>3 DEF CallsKept
<1>3. SessionsKept(to)
  <2> SUFFICES ASSUME NEW q \in Paths, to.sessions[q] # None
               PROVE  Right(to.sessions[q], q, to.timers) /\ Begins(to, q)
    BY DEF SessionsKept
  <2>1. CASE q = p
    BY <1>0, <1>i, <2>1 DEF SessionsKept, Begins
  <2>2. CASE q # p
    BY SMTT(30), <1>0, <1>i, <2>2 DEF SessionsKept, Begins
  <2> QED BY <2>1, <2>2
<1>4. FramesKept(to)
  <2> SUFFICES ASSUME NEW k \in FrameIds, st.frames[k] # None
               PROVE  Due(to, k)
    BY DEF FramesKept
  <2>1. CASE k[1] = p
    <3>1. k = <<p, k[2]>> /\ k[2] \in {0, 1}
      BY <2>1 DEF FrameIds
    <3>2. s.capture = k \/ st.frames[k].again
      BY <3>1
    <3> QED BY <1>0, <2>1, <3>2 DEF Due
  <2>2. CASE k[1] # p
    BY <1>0, <1>i, <2>2 DEF FramesKept, Due
  <2> QED BY <2>1, <2>2
<1>5. Served(to, xs, hs)
  BY SMTT(30), <1>0, <1>i DEF Served
<1> QED BY <1>1, <1>2, <1>3, <1>4, <1>5 DEF Kept

\* A frame is asked for or changes, and somebody waits for it.
LEMMA FrameChanged ==
  ASSUME PartnersAssumption, NEW st, NEW to, NEW xs, NEW hs, Kept(st, xs, hs), DOMAIN to = Parts,
         NEW k \in FrameIds, NEW r \in FrameRecords, to.frames = [st.frames EXCEPT ![k] = r],
         \/ k[1] \in Paths /\ r.again
         \/ k[1] \in Paths /\ st.sessions[k[1]] # None /\ st.sessions[k[1]].capture = k
         \/ k[1] \in Handles /\ k[2] = 0 /\ st.calls[k[1]] # None /\ st.calls[k[1]].kind = "shot",
         k[1] \in Paths /\ k[1] \notin xs /\ st.sessions[k[1]] # None /\ st.sessions[k[1]].capture = k =>
           IF st.sessions[k[1]].again THEN r.again ELSE r.target = st.sessions[k[1]].source,
         to.calls = st.calls, to.owed = st.owed, to.wrong = st.wrong, to.sessions = st.sessions,
         to.timers = st.timers
  PROVE  Kept(to, xs, hs)
<1>n. None \notin FrameRecords /\ None \notin FrameIds
  BY PortalNone
<1>i. Typed(st) /\ CallsKept(st) /\ SessionsKept(st) /\ FramesKept(st) /\ Served(st, xs, hs)
  BY DEF Kept
<1>0. to.frames[k] = r /\ r # None /\ \A j \in FrameIds : j # k => to.frames[j] = st.frames[j]
  BY <1>i, <1>n DEF Typed
<1>1. Typed(to)
  BY <1>i DEF Typed
<1>2. CallsKept(to)
  <2>1. \A h \in Handles : CallKept(to, h)
    BY SMTT(30), <1>i DEF CallsKept, CallKept
  <2> QED BY <1>i, <2>1 DEF CallsKept
<1>3. SessionsKept(to)
  BY SMTT(30), <1>i DEF SessionsKept, Begins
<1>4. FramesKept(to)
  BY <1>0, <1>i DEF FramesKept, Due
<1>5. Served(to, xs, hs)
  <2>1. \A p \in Paths : st.sessions[p] # None /\ st.sessions[p].capture # None =>
          st.sessions[p].capture \in FrameIds /\ st.sessions[p].capture[1] = p
    BY <1>i DEF Typed, SessionRecords, FrameIds, SessionsKept, Right
  <2>2. \A h \in Handles : <<h, 0>> \in FrameIds
    BY DEF FrameIds
  <2> QED BY SMTT(30), <1>0, <1>i, <2>1, <2>2 DEF Served, Given
<1> QED BY <1>1, <1>2, <1>3, <1>4, <1>5 DEF Kept

\* One field of a session is set, and the others stay.
LEMMA StageSet ==
  ASSUME NEW s \in SessionRecords, NEW x \in {"created", "selected", "starting", "active"}
  PROVE  /\ [s EXCEPT !.stage = x] \in SessionRecords
         /\ [s EXCEPT !.stage = x].stage = x
         /\ [s EXCEPT !.stage = x].source = s.source
         /\ [s EXCEPT !.stage = x].capture = s.capture
         /\ [s EXCEPT !.stage = x].request = s.request
         /\ [s EXCEPT !.stage = x].stream = s.stream
         /\ [s EXCEPT !.stage = x].again = s.again
BY DEF SessionRecords, FrameIds, Sources

LEMMA SourceSet ==
  ASSUME NEW s \in SessionRecords, NEW x \in Sources \cup {None}
  PROVE  /\ [s EXCEPT !.source = x] \in SessionRecords
         /\ [s EXCEPT !.source = x].source = x
         /\ [s EXCEPT !.source = x].stage = s.stage
         /\ [s EXCEPT !.source = x].capture = s.capture
         /\ [s EXCEPT !.source = x].request = s.request
         /\ [s EXCEPT !.source = x].stream = s.stream
         /\ [s EXCEPT !.source = x].again = s.again
BY DEF SessionRecords, FrameIds, Sources

LEMMA CaptureSet ==
  ASSUME NEW s \in SessionRecords, NEW k \in FrameIds \cup {None}
  PROVE  /\ [s EXCEPT !.capture = k] \in SessionRecords
         /\ [s EXCEPT !.capture = k].capture = k
         /\ [s EXCEPT !.capture = k].stage = s.stage
         /\ [s EXCEPT !.capture = k].source = s.source
         /\ [s EXCEPT !.capture = k].request = s.request
         /\ [s EXCEPT !.capture = k].stream = s.stream
         /\ [s EXCEPT !.capture = k].again = s.again
BY DEF SessionRecords, FrameIds, Sources

LEMMA RequestSet ==
  ASSUME NEW s \in SessionRecords, NEW h \in Handles \cup {None}
  PROVE  /\ [s EXCEPT !.request = h] \in SessionRecords
         /\ [s EXCEPT !.request = h].request = h
         /\ [s EXCEPT !.request = h].stage = s.stage
         /\ [s EXCEPT !.request = h].source = s.source
         /\ [s EXCEPT !.request = h].capture = s.capture
         /\ [s EXCEPT !.request = h].stream = s.stream
         /\ [s EXCEPT !.request = h].again = s.again
BY DEF SessionRecords, FrameIds, Sources

LEMMA StreamSet ==
  ASSUME NEW s \in SessionRecords
  PROVE  /\ [s EXCEPT !.stream = TRUE] \in SessionRecords
         /\ [s EXCEPT !.stream = TRUE].stream = TRUE
         /\ [s EXCEPT !.stream = TRUE].stage = s.stage
         /\ [s EXCEPT !.stream = TRUE].source = s.source
         /\ [s EXCEPT !.stream = TRUE].capture = s.capture
         /\ [s EXCEPT !.stream = TRUE].request = s.request
         /\ [s EXCEPT !.stream = TRUE].again = s.again
BY DEF SessionRecords, FrameIds, Sources

LEMMA FirstSet ==
  ASSUME NEW s \in SessionRecords, NEW b \in BOOLEAN
  PROVE  /\ [s EXCEPT !.first = b] \in SessionRecords
         /\ [s EXCEPT !.first = b].stage = s.stage
         /\ [s EXCEPT !.first = b].source = s.source
         /\ [s EXCEPT !.first = b].capture = s.capture
         /\ [s EXCEPT !.first = b].request = s.request
         /\ [s EXCEPT !.first = b].stream = s.stream
         /\ [s EXCEPT !.first = b].again = s.again
BY DEF SessionRecords, FrameIds, Sources

LEMMA SessionFields ==
  ASSUME NEW s \in SessionRecords
  PROVE  /\ s.stage \in {"created", "selected", "starting", "active"} /\ s.source \in Sources \cup {None}
         /\ s.capture \in FrameIds \cup {None} /\ s.request \in Handles \cup {None} /\ s.stream \in BOOLEAN
         /\ s.again \in BOOLEAN
BY DEF SessionRecords, FrameIds, Sources

\* A call's stage or dialog is set.
Stages == {None, "chooser", "quick", "capture", "preview", "selector", "confirmation", "saving"}

LEMMA CallStageSet ==
  ASSUME NEW c \in CallRecords, NEW x \in Stages
  PROVE  /\ [c EXCEPT !.stage = x] \in CallRecords
         /\ [c EXCEPT !.stage = x].kind = c.kind /\ [c EXCEPT !.stage = x].path = c.path
         /\ [c EXCEPT !.stage = x].dialog = c.dialog
BY DEF CallRecords, Stages

LEMMA CallDialogSet ==
  ASSUME NEW c \in CallRecords, NEW d \in BOOLEAN
  PROVE  /\ [c EXCEPT !.dialog = d] \in CallRecords
         /\ [c EXCEPT !.dialog = d].kind = c.kind /\ [c EXCEPT !.dialog = d].path = c.path
         /\ [c EXCEPT !.dialog = d].dialog = d
BY DEF CallRecords

-----------------------------------------------------------------------------
(* What ends. *)

LEMMA ShotIds ==
  \A h \in Handles : <<h, 0>> \in FrameIds
BY DEF FrameIds

\* Frames are forgotten; who waits for them is about to end.
LEMMA DroppedKeeps ==
  ASSUME NEW st, NEW ks, NEW xs, NEW hs, Kept(st, {}, {}),
         \A p \in Paths : st.sessions[p] # None /\ st.sessions[p].capture \in ks => p \in xs,
         \A h \in Handles : st.calls[h] # None /\ st.calls[h].kind = "shot" /\ <<h, 0>> \in ks => h \in hs
  PROVE  Kept(Por!Dropped(st, ks), xs, hs)
<1> DEFINE to == Por!Dropped(st, ks)
<1>i. Typed(st) /\ CallsKept(st) /\ SessionsKept(st) /\ FramesKept(st) /\ Served(st, {}, {})
  BY DEF Kept
<1>1. /\ DOMAIN to = Parts /\ to.calls = st.calls /\ to.owed = st.owed /\ to.wrong = st.wrong
      /\ to.sessions = st.sessions /\ to.timers = st.timers
      /\ to.frames = [k \in FrameIds |-> IF k \in ks THEN None ELSE st.frames[k]]
  BY <1>i, DroppedIs DEF Typed
<1> HIDE DEF to
<1>2. Typed(to)
  BY <1>1, <1>i DEF Typed
<1>3. CallsKept(to)
  BY <1>1, <1>i DEF CallsKept, CallKept
<1>4. SessionsKept(to)
  BY <1>1, <1>i DEF SessionsKept, Begins
<1>5. FramesKept(to)
  BY <1>1, <1>i DEF FramesKept, Due
<1>6. Served(to, xs, hs)
  <2>1. \A p \in Paths : st.sessions[p] # None => st.sessions[p].capture \in FrameIds \cup {None}
    BY <1>i DEF Typed, SessionRecords, FrameIds
  <2> QED BY <1>1, <1>i, <2>1, ShotIds DEF Served, Given
<1> QED BY <1>2, <1>3, <1>4, <1>5, <1>6 DEF Kept, to

\* Calls are answered that no session waits for.
LEMMA AnsweredKeeps ==
  ASSUME PartnersAssumption, NEW st, NEW xs, NEW hs, Kept(st, xs, hs), NEW cs \in SUBSET Handles,
         \A h \in cs : /\ st.calls[h] # None /\ st.calls[h].kind # "start"
                       /\ st.calls[h].kind = "shot" => st.frames[<<h, 0>>] = None
  PROVE  Kept(Por!Answered(st, cs), xs, hs \ cs)
<1> DEFINE to == Por!Answered(st, cs)
<1>n. None \notin CallRecords
  BY PortalNone
<1>i. Typed(st) /\ CallsKept(st) /\ SessionsKept(st) /\ FramesKept(st) /\ Served(st, xs, hs)
  BY DEF Kept
<1>1. /\ DOMAIN to = Parts
      /\ to.calls = [h \in Handles |-> IF h \in cs THEN None ELSE st.calls[h]]
      /\ to.owed = st.owed \ cs
      /\ to.wrong = (st.wrong \/ ~(cs \subseteq st.owed))
      /\ to.timers = st.timers \ {Por!Reply(h) : h \in cs}
      /\ to.sessions = st.sessions /\ to.frames = st.frames
  BY <1>i, AnsweredIs DEF Typed
<1> HIDE DEF to
<1>0. /\ \A h \in Handles : to.calls[h] = IF h \in cs THEN None ELSE st.calls[h]
      /\ \A x : x \in to.timers => x \in st.timers
      /\ \A h \in cs : Por!Reply(h) \notin to.timers
  BY <1>1
<1>2. Typed(to)
  BY <1>1, <1>i DEF Typed
<1>3. CallsKept(to)
  <2>1. st.wrong = FALSE /\ st.owed = {h \in Handles : st.calls[h] # None}
    BY <1>i DEF CallsKept
  <2>2. cs \subseteq st.owed
    BY <2>1
  <2>3. to.wrong = FALSE
    BY <1>1, <2>1, <2>2
  <2>4. to.owed = {h \in Handles : to.calls[h] # None}
    BY <1>0, <1>1, <2>1
  <2>5. \A h \in Handles : CallKept(to, h)
    BY SMTT(30), <1>0, <1>1, <1>i DEF CallsKept, CallKept
  <2>6. \A h \in Handles : Por!Reply(h) \in to.timers => to.calls[h] # None /\ to.calls[h].kind \in {"create", "select"}
    BY <1>0, <1>i DEF CallsKept
  <2> QED BY <2>3, <2>4, <2>5, <2>6 DEF CallsKept
<1>4. SessionsKept(to)
  <2>1. \A p \in Paths : st.sessions[p] # None => st.sessions[p].request \in Handles \cup {None}
    BY <1>i DEF Typed, SessionRecords
  <2>2. \A p \in Paths : st.sessions[p] # None /\ st.sessions[p].stage = "starting" =>
          to.calls[st.sessions[p].request] = st.calls[st.sessions[p].request]
    <3> SUFFICES ASSUME NEW p \in Paths, st.sessions[p] # None, st.sessions[p].stage = "starting"
                 PROVE  to.calls[st.sessions[p].request] = st.calls[st.sessions[p].request]
      OBVIOUS
    <3> DEFINE r == st.sessions[p].request
    <3>1. r \in Handles /\ st.calls[r].kind = "start"
      BY <1>i, <2>1 DEF SessionsKept, Begins
    <3> HIDE DEF r
    <3>2. to.calls[r] = st.calls[r]
      BY <1>0, <3>1
    <3> QED BY <3>2 DEF r
  <2> QED BY SMTT(30), <1>0, <1>1, <1>i, <2>2 DEF SessionsKept, Begins, Right
<1>5. FramesKept(to)
  <2> SUFFICES ASSUME NEW k \in FrameIds, st.frames[k] # None
               PROVE  Due(to, k)
    BY <1>1 DEF FramesKept
  <2>1. CASE k[1] \in Handles /\ k[2] = 0 /\ st.calls[k[1]] # None /\ st.calls[k[1]].kind = "shot"
    <3>1. k = <<k[1], 0>>
      BY <2>1 DEF FrameIds
    <3>2. k[1] \notin cs
      BY <2>1, <3>1
    <3> QED BY <1>0, <2>1, <3>2 DEF Due
  <2> QED BY <1>1, <1>i, <2>1 DEF FramesKept, Due
<1>6. Served(to, xs, hs \ cs)
  BY <1>0, <1>1, <1>i DEF Served
<1> QED BY <1>2, <1>3, <1>4, <1>5, <1>6 DEF Kept, to

\* ScreenshotPortal::complete(): screenshots end with their frames.
LEMMA ShotsDoneKeeps ==
  ASSUME PartnersAssumption, NEW st, NEW xs, NEW hs, Kept(st, xs, hs), NEW cs \in SUBSET Handles,
         \A h \in cs : st.calls[h] # None /\ st.calls[h].kind = "shot"
  PROVE  Kept(Por!ShotsDone(st, cs), xs, hs \ cs)
<1> DEFINE ks == {<<h, 0>> : h \in cs}
           mid == Por!Dropped(st, ks)
<1>i. Typed(st) /\ CallsKept(st) /\ SessionsKept(st) /\ FramesKept(st) /\ Served(st, xs, hs)
  BY DEF Kept
<1>1. /\ DOMAIN mid = Parts /\ mid.calls = st.calls /\ mid.owed = st.owed /\ mid.wrong = st.wrong
      /\ mid.sessions = st.sessions /\ mid.timers = st.timers
      /\ mid.frames = [k \in FrameIds |-> IF k \in ks THEN None ELSE st.frames[k]]
  BY <1>i, DroppedIs DEF Typed
<1>2. Por!ShotsDone(st, cs) = Por!Answered(mid, cs)
  BY DEF Por!ShotsDone
<1>3. \A p \in Paths : st.sessions[p] # None /\ st.sessions[p].capture # None =>
        st.sessions[p].capture \in FrameIds /\ st.sessions[p].capture \notin ks
  <2> SUFFICES ASSUME NEW p \in Paths, st.sessions[p] # None, st.sessions[p].capture # None
               PROVE  st.sessions[p].capture \in FrameIds /\ st.sessions[p].capture \notin ks
    OBVIOUS
  <2>1. st.sessions[p].capture \in FrameIds
    BY <1>i DEF Typed, SessionRecords, FrameIds
  <2>2. st.sessions[p].capture[1] = p
    BY <1>i DEF SessionsKept, Right
  <2>3. \A h \in cs : <<h, 0>>[1] # p
    BY PortalNone
  <2> QED BY <2>1, <2>2, <2>3
<1>4. \A h \in Handles : <<h, 0>> \in FrameIds /\ (<<h, 0>> \in ks => h \in cs)
  BY DEF FrameIds
<1>5. \A h \in cs : <<h, 0>> \in ks
  OBVIOUS
<1> HIDE DEF mid, ks
<1>6. Kept(mid, xs, hs \cup cs)
  <2>1. Typed(mid)
    BY <1>1, <1>i DEF Typed
  <2>2. CallsKept(mid)
    BY SMTT(30), <1>1, <1>i DEF CallsKept, CallKept
  <2>3. SessionsKept(mid)
    BY <1>1, <1>i DEF SessionsKept, Begins
  <2>4. FramesKept(mid)
    BY <1>1, <1>i DEF FramesKept, Due
  <2>5. Served(mid, xs, hs \cup cs)
    BY <1>1, <1>3, <1>4, <1>i DEF Served, Given
  <2> QED BY <2>1, <2>2, <2>3, <2>4, <2>5 DEF Kept
<1>7. ASSUME NEW h \in cs
      PROVE  mid.calls[h] # None /\ mid.calls[h].kind = "shot" /\ mid.frames[<<h, 0>>] = None
  <2> DEFINE k == <<h, 0>>
  <2>1. k \in FrameIds /\ k \in ks
    BY <1>4, <1>5
  <2> HIDE DEF k
  <2>2. mid.frames[k] = None
    BY ONLY <1>1, <2>1
  <2>3. mid.calls[h] # None /\ mid.calls[h].kind = "shot"
    BY <1>1
  <2> QED BY ONLY <2>2, <2>3 DEF k
<1>8. Kept(Por!Answered(mid, cs), xs, (hs \cup cs) \ cs)
  BY <1>6, <1>7, AnsweredKeeps
<1> QED BY <1>2, <1>8, KeptMore

-----------------------------------------------------------------------------
(* What the handlers are made of. *)

LEMMA CloseSessionKeeps ==
  ASSUME PartnersAssumption, NEW st, NEW xs, NEW hs, NEW p \in Paths, Kept(st, xs, hs)
  PROVE  Kept(Por!CloseSession(st, p), xs \ {p}, hs)
<1>1. CASE st.sessions[p] = None
  <2>1. Por!CloseSession(st, p) = st
    BY <1>1 DEF Por!CloseSession
  <2>2. Served(st, xs \ {p}, hs)
    BY <1>1 DEF Kept, Served
  <2> QED BY <2>1, <2>2 DEF Kept
<1>2. CASE st.sessions[p] # None
  <2> DEFINE ps == {p}
  <2>1. Por!CloseSession(st, p) = Por!CloseSessions(st, ps)
    BY <1>2 DEF Por!CloseSession
  <2>2. ps \in SUBSET Paths
    OBVIOUS
  <2> HIDE DEF ps
  <2>3. Kept(Por!CloseSessions(st, ps), xs \ ps, hs)
    BY <2>2, CloseSessionsKeeps
  <2> QED BY <2>1, <2>3 DEF ps
<1> QED BY <1>1, <1>2

LEMMA IdleFrames ==
  ASSUME PartnersAssumption, NEW st, FramesKept(st), NEW p \in Paths, NEW j \in FrameIds, j[1] = p,
         st.frames[j] # None
  PROVE  \/ st.frames[j].again
         \/ st.sessions[p] # None /\ st.sessions[p].capture = j /\ j # None
BY PortalNone DEF FramesKept, Due

LEMMA NoDialog ==
  ASSUME PartnersAssumption, NEW st, CallsKept(st), NEW p \in Paths,
         st.sessions[p].source # None, NEW h \in Handles, st.calls[h] # None, st.calls[h].path = p
  PROVE  ~st.calls[h].dialog
<1>1. CallKept(st, h) /\ p # None
  BY PortalNone DEF CallsKept
<1> QED BY <1>1 DEF CallKept

\* output(): what a session asks for is its source, or the first monitor.
LEMMA AskedIs ==
  ASSUME PartnersAssumption, NEW s \in SessionRecords
  PROVE  /\ Por!Asked(s) \in Sources \cup {None}
         /\ s.source # None => Por!Asked(s) = s.source
<1>1. s.source \in Sources \cup {None}
  BY SessionFields
<1>2. Por!First \in Screens \cup {None}
  BY DEF Por!First
<1> QED BY <1>1, <1>2 DEF Por!Asked, Sources

\* requestOutput(), requestToplevel(): a session waits for the frame, or ends.
LEMMA RequestFrameKeeps ==
  ASSUME PartnersAssumption, NEW st, NEW p \in Paths, Kept(st, {}, {}), st.sessions[p] # None,
         st.sessions[p].stage \in {"starting", "active"},
         \/ st.sessions[p].again
         \/ /\ st.sessions[p].source # None /\ st.sessions[p].capture = None
            /\ Por!Settle(p) \notin st.timers
  PROVE  Kept(Por!RequestFrame(st, p), {}, {})
<1> DEFINE k == <<p, IF st.frames[<<p, 0>>] = None THEN 0 ELSE 1>>
           x == Por!Asked(st.sessions[p])
           again == st.sessions[p].again
           s == [st.sessions[p] EXCEPT !.capture = k]
           asking == [st EXCEPT !.sessions[p].capture = k]
           r == [target |-> x, copying |-> FALSE, again |-> again]
           to == [asking EXCEPT !.frames[k] = r]
           ps == {p}
<1>n. /\ None \notin CallRecords /\ None \notin SessionRecords /\ None \notin FrameRecords
      /\ None \notin FrameIds /\ Paths \cap Handles = {} /\ None \notin Handles
  BY PortalNone
<1>i. Typed(st) /\ CallsKept(st) /\ SessionsKept(st) /\ FramesKept(st) /\ Served(st, {}, {})
  BY DEF Kept
<1>1. st.sessions[p] \in SessionRecords /\ k \in FrameIds /\ k[1] = p /\ k # None /\ DOMAIN st = Parts
  BY <1>i, <1>n DEF Typed, FrameIds
<1>2. /\ s \in SessionRecords /\ s.capture = k /\ s.source = st.sessions[p].source
      /\ s.stage = st.sessions[p].stage /\ s.again = again /\ again \in BOOLEAN
      /\ s.request = st.sessions[p].request /\ s.stream = st.sessions[p].stream
  <2> DEFINE old == st.sessions[p]
  <2>1. old \in SessionRecords /\ k \in FrameIds \cup {None}
    BY <1>1
  <2>2. s = [old EXCEPT !.capture = k]
    OBVIOUS
  <2> HIDE DEF k, s, old
  <2>3. /\ s \in SessionRecords /\ s.capture = k /\ s.source = old.source /\ s.stage = old.stage
        /\ s.request = old.request /\ s.stream = old.stream /\ s.again = old.again /\ old.again \in BOOLEAN
    BY <2>1, <2>2, CaptureSet, SessionFields
  <2> QED BY <2>3 DEF old
<1>3. /\ DOMAIN asking = Parts /\ asking.calls = st.calls /\ asking.owed = st.owed /\ asking.wrong = st.wrong
      /\ asking.frames = st.frames /\ asking.timers = st.timers
      /\ asking.sessions = [st.sessions EXCEPT ![p] = s]
  <2> HIDE DEF k
  <2> QED BY <1>1 DEF Parts
<1>4. \A n \in {0, 1} : st.frames[<<p, n>>] # None => st.frames[<<p, n>>].again
  <2> SUFFICES ASSUME NEW n \in {0, 1}, st.frames[<<p, n>>] # None PROVE st.frames[<<p, n>>].again
    OBVIOUS
  <2> DEFINE j == <<p, n>>
  <2>1. j \in FrameIds /\ j[1] = p /\ st.frames[j] # None
    BY DEF FrameIds
  <2> HIDE DEF j
  <2>2. st.frames[j].again \/ (st.sessions[p].capture = j /\ j # None)
    BY <1>i, <2>1, IdleFrames
  <2>3. st.sessions[p].again /\ st.sessions[p].capture = j /\ j # None => st.frames[j].again
    BY <1>i DEF Served, Given
  <2> QED BY <2>2, <2>3 DEF j
<1>5. \A h \in Handles : st.calls[h] # None /\ st.calls[h].path = p /\ st.calls[h].dialog =>
        st.sessions[p].source = None
  BY <1>i, NoDialog
<1>6. Right(s, p, st.timers)
  <2>1. Right(st.sessions[p], p, st.timers) /\ s.capture # None
    BY <1>1, <1>2, <1>i DEF SessionsKept
  <2> HIDE DEF s, k
  <2> QED BY <1>1, <1>2, <2>1 DEF Right
<1> HIDE DEF asking, s, k
<1>7. Kept(st, ps, {})
  BY KeptMore
<1>8. p \in ps
  OBVIOUS
<1> HIDE DEF ps
<1>9. Kept(asking, ps, {})
  BY <1>1, <1>2, <1>3, <1>4, <1>5, <1>6, <1>7, <1>8, SessionChanged
<1>10. CASE Por!Live(x)
  <2>1. Por!RequestFrame(st, p) = to
    BY <1>10 DEF Por!RequestFrame, asking, k
  <2>a. x \in Sources /\ (s.source # None => x = s.source)
    BY <1>1, <1>2, <1>10, AskedIs DEF Por!Live
  <2>2. r \in FrameRecords /\ r.target = x /\ r.again = again
    <3> HIDE DEF x, again
    <3> QED BY <1>2, <2>a DEF FrameRecords
  <2> HIDE DEF r
  <2>3. /\ DOMAIN to = Parts /\ to.calls = st.calls /\ to.owed = st.owed /\ to.wrong = st.wrong
        /\ to.sessions = asking.sessions /\ to.timers = st.timers
        /\ to.frames = [asking.frames EXCEPT ![k] = r]
    BY <1>3 DEF Parts
  <2> HIDE DEF to
  <2>4. asking.sessions[p] = s
    BY <1>1, <1>2, <1>3, <1>i DEF Typed
  <2>5. s # None
    BY <1>2, <1>n
  <2> HIDE DEF x, again
  <2>6. Kept(to, ps, {})
    BY <1>1, <1>2, <1>3, <1>8, <1>9, <2>2, <2>3, <2>4, <2>5, FrameChanged
  <2>7. to.frames[k] = r /\ r # None
    BY <1>1, <1>3, <1>i, <1>n, <2>2, <2>3 DEF Typed
  <2>10. Given(s, to.frames)
    BY <1>2, <2>2, <2>7, <2>a DEF Given, again
  <2>8. Kept(to, {p}, {None})
    BY <2>6, KeptMore DEF ps
  <2>9. to.sessions[p] = s
    BY <2>3, <2>4
  <2> QED BY <1>n, <2>1, <2>8, <2>9, <2>10, KeptLess
<1>11. CASE ~Por!Live(x)
  <2>1. Por!RequestFrame(st, p) = Por!CloseSession(asking, p)
    BY <1>11 DEF Por!RequestFrame, asking, k
  <2>2. Kept(Por!CloseSession(asking, p), ps \ {p}, {})
    BY <1>9, CloseSessionKeeps
  <2> QED BY <2>1, <2>2, KeptMore DEF ps
<1> QED BY <1>10, <1>11

\* maybeCapture().
LEMMA MaybeCaptureKeeps ==
  ASSUME PartnersAssumption, NEW st, NEW p \in Paths, Kept(st, {}, {})
  PROVE  Kept(Por!MaybeCapture(st, p), {}, {})
<1>1. CASE st.sessions[p] # None /\ st.sessions[p].stage = "active" /\ st.sessions[p].capture = None
  <2>1. Right(st.sessions[p], p, st.timers)
    BY <1>1 DEF Kept, SessionsKept
  <2>2. \/ st.sessions[p].again
        \/ st.sessions[p].source # None /\ Por!Settle(p) \notin st.timers
    BY <1>1, <2>1 DEF Right
  <2>3. Kept(Por!RequestFrame(st, p), {}, {})
    BY <1>1, <2>2, RequestFrameKeeps
  <2> QED BY <1>1, <2>3 DEF Por!MaybeCapture
<1>2. CASE ~(st.sessions[p] # None /\ st.sessions[p].stage = "active" /\ st.sessions[p].capture = None)
  <2>1. Por!MaybeCapture(st, p) = st
    BY <1>2 DEF Por!MaybeCapture
  <2> QED BY <2>1
<1> QED BY <1>1, <1>2

\* A session is set to what it was, but for its stream and when frames are due.
LEMMA SessionTuned ==
  ASSUME PartnersAssumption, NEW st, NEW to, NEW xs, NEW hs, Kept(st, xs, hs), DOMAIN to = Parts,
         NEW p \in Paths, NEW s \in SessionRecords, st.sessions[p] # None,
         to.sessions = [st.sessions EXCEPT ![p] = s],
         s.stage = st.sessions[p].stage, s.request = st.sessions[p].request,
         s.source = st.sessions[p].source, s.capture = st.sessions[p].capture,
         s.again = st.sessions[p].again,
         \/ s.stream = st.sessions[p].stream
         \/ /\ s.stream /\ s.stage \in {"starting", "active"}
            /\ s.again \/ (s.source # None /\ Por!Settle(p) \notin st.timers),
         to.calls = st.calls, to.owed = st.owed, to.wrong = st.wrong, to.frames = st.frames,
         to.timers = st.timers
  PROVE  Kept(to, xs, hs)
<1> DEFINE ys == xs \cup {p}
<1>i. Typed(st) /\ CallsKept(st) /\ SessionsKept(st) /\ FramesKept(st) /\ Served(st, xs, hs)
  BY DEF Kept
<1>1. Kept(st, ys, hs) /\ p \in ys
  BY KeptMore
<1>2. Right(s, p, st.timers)
  <2>1. Right(st.sessions[p], p, st.timers)
    BY <1>i DEF SessionsKept
  <2> QED BY <2>1 DEF Right
<1>3. \A n \in {0, 1} : st.frames[<<p, n>>] # None => s.capture = <<p, n>> \/ st.frames[<<p, n>>].again
  <2> SUFFICES ASSUME NEW n \in {0, 1}, st.frames[<<p, n>>] # None
               PROVE  s.capture = <<p, n>> \/ st.frames[<<p, n>>].again
    OBVIOUS
  <2> DEFINE j == <<p, n>>
  <2>1. j \in FrameIds /\ j[1] = p /\ st.frames[j] # None
    BY DEF FrameIds
  <2> HIDE DEF j
  <2>2. st.sessions[p].capture = j \/ st.frames[j].again
    BY <1>i, <2>1, IdleFrames
  <2> QED BY <2>2 DEF j
<1>4. \A h \in Handles : st.calls[h] # None /\ st.calls[h].path = p /\ st.calls[h].dialog => s.source = None
  BY <1>i, NoDialog
<1> HIDE DEF ys
<1>5. Kept(to, ys, hs)
  BY <1>1, <1>2, <1>3, <1>4, SessionChanged
<1>6. to.sessions[p] = s /\ \A q \in Paths : q # p => to.sessions[q] = st.sessions[q]
  BY <1>i DEF Typed
<1>7. Served(to, xs, hs)
  BY SMTT(30), <1>6, <1>i DEF Served, Given
<1> QED BY <1>5, <1>7 DEF Kept

\* beginPipeWire().
LEMMA BeginPipeWireKeeps ==
  ASSUME PartnersAssumption, NEW st, NEW p \in Paths, NEW starts \in BOOLEAN, Kept(st, {}, {}),
         st.sessions[p] # None, st.sessions[p].stage = "starting",
         st.sessions[p].again \/ (st.sessions[p].source # None /\ Por!Settle(p) \notin st.timers)
  PROVE  Kept(Por!BeginPipeWire(st, p, starts), {}, {})
<1>1. CASE ~starts
  <2>1. Por!BeginPipeWire(st, p, starts) = Por!CloseSession(st, p)
    BY <1>1 DEF Por!BeginPipeWire
  <2>2. Kept(Por!CloseSession(st, p), {} \ {p}, {})
    BY CloseSessionKeeps
  <2> QED BY <2>1, <2>2, KeptMore
<1>2. CASE starts
  <2> DEFINE old == st.sessions[p]
             flowing == [old EXCEPT !.stream = TRUE]
             s == [flowing EXCEPT !.first = TRUE]
             fs == [st.sessions EXCEPT ![p] = s]
             mid == [st EXCEPT !.sessions = fs]
             ts == st.timers \cup {Por!Limit(p)}
             to == Por!BeginPipeWire(st, p, starts)
  <2>1. old \in SessionRecords /\ DOMAIN st = Parts /\ st.sessions \in [Paths -> {None} \cup SessionRecords]
    BY DEF Kept, Typed
  <2>2. /\ s \in SessionRecords /\ s.stage = old.stage /\ s.request = old.request /\ s.source = old.source
        /\ s.capture = old.capture /\ s.stream = TRUE /\ s.again = old.again
    <3>1. /\ flowing \in SessionRecords /\ flowing.stage = old.stage /\ flowing.request = old.request
          /\ flowing.source = old.source /\ flowing.capture = old.capture /\ flowing.stream = TRUE
          /\ flowing.again = old.again
      BY <2>1, StreamSet
    <3> HIDE DEF flowing
    <3> QED BY <3>1, FirstSet
  <2>3. /\ DOMAIN mid = Parts /\ mid.calls = st.calls /\ mid.owed = st.owed /\ mid.wrong = st.wrong
        /\ mid.frames = st.frames /\ mid.timers = st.timers /\ mid.sessions = fs
    <3> HIDE DEF fs
    <3> QED BY <2>1 DEF Parts
  <2>4. /\ DOMAIN to = Parts /\ to.calls = st.calls /\ to.owed = st.owed /\ to.wrong = st.wrong
        /\ to.frames = st.frames /\ to.timers = ts /\ to.sessions = fs
    <3> DEFINE f1 == [st.sessions EXCEPT ![p] = flowing]
               one == [st EXCEPT !.sessions[p].stream = TRUE]
               two == [one EXCEPT !.sessions[p].first = TRUE]
    <3>1. to = [two EXCEPT !.timers = ts]
      BY <1>2 DEF Por!BeginPipeWire
    <3>2. f1[p] = flowing /\ [f1 EXCEPT ![p] = [f1[p] EXCEPT !.first = TRUE]] = fs
      BY <2>1
    <3>3. /\ DOMAIN one = Parts /\ one.calls = st.calls /\ one.owed = st.owed /\ one.wrong = st.wrong
          /\ one.frames = st.frames /\ one.timers = st.timers /\ one.sessions = f1
      BY <2>1 DEF Parts
    <3> HIDE DEF one, f1, fs
    <3>4. /\ DOMAIN two = Parts /\ two.calls = st.calls /\ two.owed = st.owed /\ two.wrong = st.wrong
          /\ two.frames = st.frames /\ two.timers = st.timers
          /\ two.sessions = [f1 EXCEPT ![p] = [f1[p] EXCEPT !.first = TRUE]]
      BY <3>3 DEF Parts
    <3> HIDE DEF two, to, ts
    <3> QED BY <3>1, <3>2, <3>4 DEF Parts
  <2> HIDE DEF s
  <2>5. fs = [st.sessions EXCEPT ![p] = s]
    OBVIOUS
  <2>8. /\ mid.sessions = [st.sessions EXCEPT ![p] = s]
        /\ s.stage = st.sessions[p].stage /\ s.request = st.sessions[p].request
        /\ s.source = st.sessions[p].source /\ s.capture = st.sessions[p].capture
        /\ s.stream /\ s.again = st.sessions[p].again /\ s \in SessionRecords /\ s.stage = "starting"
    <3> HIDE DEF mid, fs
    <3> QED BY <2>2, <2>3, <2>5
  <2> HIDE DEF mid, fs, to, old
  <2>6. Kept(mid, {}, {})
    BY <2>3, <2>8, SessionTuned
  <2>7. Kept(to, {}, {})
    <3>1. \A q, h : (Por!Reply(h) \in ts => Por!Reply(h) \in st.timers)
                    /\ (Por!Settle(q) \in ts => Por!Settle(q) \in st.timers)
      BY TimerKinds
    <3> HIDE DEF ts
    <3> QED BY <2>3, <2>4, <2>6, <3>1, TimersChanged
  <2> QED BY <2>7 DEF to
<1> QED BY <1>1, <1>2

\* A screenshot's stage is set, and whether it shows a dialog.
Staged(st, h, x, d) == [st EXCEPT !.calls[h].stage = x, !.calls[h].dialog = d]
Framed(st, k, r) == [st EXCEPT !.frames[k] = r]

LEMMA FramedIs ==
  ASSUME NEW st, DOMAIN st = Parts, NEW k, NEW r
  PROVE  /\ DOMAIN Framed(st, k, r) = Parts
         /\ Framed(st, k, r).calls = st.calls /\ Framed(st, k, r).owed = st.owed
         /\ Framed(st, k, r).wrong = st.wrong /\ Framed(st, k, r).sessions = st.sessions
         /\ Framed(st, k, r).timers = st.timers
         /\ Framed(st, k, r).frames = [st.frames EXCEPT ![k] = r]
BY DEF Framed, Parts

LEMMA StagedKeeps ==
  ASSUME PartnersAssumption, NEW st, NEW h \in Handles, Kept(st, {}, {h}), st.calls[h] # None,
         st.calls[h].kind = "shot", NEW x \in Stages, NEW d \in BOOLEAN
  PROVE  /\ Kept(Staged(st, h, x, d), {}, {h})
         /\ Staged(st, h, x, d).calls[h] # None /\ Staged(st, h, x, d).calls[h].kind = "shot"
         /\ Staged(st, h, x, d).calls[h].dialog = d
         /\ Staged(st, h, x, d).sessions = st.sessions /\ Staged(st, h, x, d).frames = st.frames
<1> DEFINE old == st.calls[h]
           c1 == [old EXCEPT !.stage = x]
           c == [c1 EXCEPT !.dialog = d]
           f1 == [st.calls EXCEPT ![h] = c1]
           one == [st EXCEPT !.calls[h].stage = x]
           two == [one EXCEPT !.calls[h].dialog = d]
           to == Staged(st, h, x, d)
           hs == {h}
<1>1. old \in CallRecords /\ DOMAIN st = Parts /\ st.calls \in [Handles -> {None} \cup CallRecords]
  BY DEF Kept, Typed
<1>2. c1 \in CallRecords /\ c1.kind = old.kind /\ c1.path = old.path
  <2> HIDE DEF old
  <2> QED BY <1>1, CallStageSet
<1>3. c \in CallRecords /\ c.kind = old.kind /\ c.path = old.path /\ c.dialog = d
  <2> HIDE DEF c1
  <2> QED BY <1>2, CallDialogSet
<1>4. to = two
  BY DEF Staged
<1>5. /\ DOMAIN one = Parts /\ one.calls = f1 /\ one.owed = st.owed /\ one.wrong = st.wrong
      /\ one.frames = st.frames /\ one.timers = st.timers /\ one.sessions = st.sessions
  BY <1>1 DEF Parts
<1>6. f1[h] = c1 /\ [f1 EXCEPT ![h] = [f1[h] EXCEPT !.dialog = d]] = [st.calls EXCEPT ![h] = c]
  BY <1>1
<1> HIDE DEF one, f1, c1
<1>7. /\ DOMAIN two = Parts /\ two.calls = [f1 EXCEPT ![h] = [f1[h] EXCEPT !.dialog = d]] /\ two.owed = st.owed
      /\ two.wrong = st.wrong
      /\ two.frames = st.frames /\ two.timers = st.timers /\ two.sessions = st.sessions
  BY <1>5 DEF Parts
<1>8. /\ DOMAIN to = Parts /\ to.calls = [st.calls EXCEPT ![h] = c] /\ to.owed = st.owed
      /\ to.wrong = st.wrong
      /\ to.frames = st.frames /\ to.timers = st.timers /\ to.sessions = st.sessions
  <2> HIDE DEF two, to, c
  <2> QED BY <1>4, <1>6, <1>7
<1>9. /\ c.kind = st.calls[h].kind /\ c.path = st.calls[h].path /\ c.kind = "shot" /\ h \in hs /\ Kept(st, {}, hs)
  BY <1>3
<1> HIDE DEF to, c, hs
<1>10. Kept(to, {}, hs)
  BY <1>3, <1>8, <1>9, CallChanged
<1>11. to.calls[h] = c /\ c # None
  BY <1>1, <1>3, <1>8, PortalNone
<1> QED BY <1>3, <1>8, <1>9, <1>10, <1>11 DEF to, hs

\* captureReady(): a dialog is shown, or the screenshot is done.
LEMMA CaptureReadyKeeps ==
  ASSUME PartnersAssumption, NEW st, NEW h \in Handles, Kept(st, {}, {h}), st.calls[h] # None,
         st.calls[h].kind = "shot"
  PROVE  Kept(Por!CaptureReady(st, h), {}, {})
<1>1. ASSUME NEW x \in {"selector", "confirmation"}
      PROVE  Kept(Por!Dialog(st, h, x), {}, {})
  <2> DEFINE to == Staged(st, h, x, TRUE)
  <2>1. Por!Dialog(st, h, x) = to
    BY DEF Por!Dialog, Staged
  <2>2. x \in Stages
    BY DEF Stages
  <2>3. Kept(to, {}, {h}) /\ to.calls[h].dialog = TRUE
    BY <2>2, StagedKeeps
  <2> HIDE DEF to
  <2>4. Kept(to, {None}, {h})
    BY <2>3, KeptMore
  <2>5. to.calls[h].dialog /\ None \notin Paths
    BY <2>3, PortalNone
  <2>6. Kept(to, {}, {})
    BY <2>4, <2>5, KeptLess
  <2> QED BY <2>1, <2>6
<1>2. Kept(Por!ShotDone(st, h), {}, {})
  <2> DEFINE cs == {h}
  <2>1. cs \in SUBSET Handles /\ \A g \in cs : st.calls[g] # None /\ st.calls[g].kind = "shot"
    OBVIOUS
  <2>2. Por!ShotDone(st, h) = Por!ShotsDone(st, cs) /\ Kept(st, {}, cs)
    BY DEF Por!ShotDone
  <2> HIDE DEF cs
  <2>3. Kept(Por!ShotsDone(st, cs), {}, cs \ cs)
    BY <2>1, <2>2, ShotsDoneKeeps
  <2> QED BY <2>2, <2>3, KeptMore
<1> QED BY <1>1, <1>2 DEF Por!CaptureReady

\* request() and its likes: the frame of a screenshot is asked for, or it is done.
LEMMA ShotFrameKeeps ==
  ASSUME PartnersAssumption, NEW st, NEW h \in Handles, Kept(st, {}, {h}), st.calls[h] # None,
         st.calls[h].kind = "shot", NEW stage \in Stages, NEW x \in Sources
  PROVE  Kept(Por!ShotFrame(st, h, stage, x), {}, {})
<1>1. CASE source[x] = "live"
  <2> DEFINE mid == Staged(st, h, stage, FALSE)
             k == <<h, 0>>
             again == FALSE
             r == [target |-> x, copying |-> FALSE, again |-> again]
             to == Framed(mid, k, r)
             hs == {h}
  <2>1. Por!ShotFrame(st, h, stage, x) = to
    BY <1>1 DEF Por!ShotFrame, source, Staged, Framed
  <2>2. Kept(mid, {}, hs) /\ mid.calls[h] # None /\ mid.calls[h].kind = "shot"
    <3> DEFINE b == FALSE
    <3>0. b \in BOOLEAN
      OBVIOUS
    <3>1. mid = Staged(st, h, stage, b)
      OBVIOUS
    <3> HIDE DEF b, mid
    <3>2. /\ Kept(Staged(st, h, stage, b), {}, {h}) /\ Staged(st, h, stage, b).calls[h] # None
          /\ Staged(st, h, stage, b).calls[h].kind = "shot"
      <4>1. /\ h \in Handles /\ Kept(st, {}, {h}) /\ st.calls[h] # None
            /\ st.calls[h].kind = "shot" /\ stage \in Stages /\ b \in BOOLEAN
        BY <3>0
      <4> QED BY ONLY PartnersAssumption, <4>1, StagedKeeps
    <3> QED BY <3>1, <3>2
  <2> HIDE DEF mid
  <2>3. r \in FrameRecords /\ k \in FrameIds /\ k[1] = h /\ k[2] = 0
    BY DEF FrameRecords, FrameIds
  <2> HIDE DEF r, k, again
  <2>10. r # None /\ k[1] \notin Paths /\ k[1] \in Handles
    BY <2>3, PortalNone
  <2>11. DOMAIN mid = Parts
    BY <2>2 DEF Kept, Typed
  <2>4. /\ DOMAIN to = Parts /\ to.calls = mid.calls /\ to.owed = mid.owed /\ to.wrong = mid.wrong
        /\ to.sessions = mid.sessions /\ to.timers = mid.timers /\ to.frames = [mid.frames EXCEPT ![k] = r]
    BY ONLY <2>11, FramedIs
  <2>5. to.frames[k] = r
    BY <2>2, <2>3, <2>4 DEF Kept, Typed
  <2>6. to.frames[<<h, 0>>] # None
    BY <2>10, <2>5 DEF k
  <2> HIDE DEF to, hs
  <2>7. Kept(to, {}, hs)
    BY <2>2, <2>3, <2>4, <2>10, FrameChanged
  <2>8. Kept(to, {None}, {h}) /\ None \notin Paths
    BY <2>7, KeptMore, PortalNone DEF hs
  <2>9. Kept(to, {}, {})
    BY <2>6, <2>8, KeptLess
  <2> QED BY <2>1, <2>9
<1>2. CASE source[x] # "live"
  <2> DEFINE cs == {h}
  <2>1. cs \in SUBSET Handles /\ \A g \in cs : st.calls[g] # None /\ st.calls[g].kind = "shot"
    OBVIOUS
  <2>2. Por!ShotFrame(st, h, stage, x) = Por!ShotsDone(st, cs) /\ Kept(st, {}, cs)
    BY <1>2 DEF Por!ShotFrame, Por!ShotDone, source
  <2> HIDE DEF cs
  <2>3. Kept(Por!ShotsDone(st, cs), {}, cs \ cs)
    BY <2>1, <2>2, ShotsDoneKeeps
  <2> QED BY <2>2, <2>3, KeptMore
<1> QED BY <1>1, <1>2

\* captureFailed(), and the failure of screenshots.
LEMMA FailedKeeps ==
  ASSUME PartnersAssumption, NEW st, NEW ks, Kept(st, {}, {})
  PROVE  Kept(Por!Failed(st, ks), {}, {})
<1> DEFINE now == Por!Dropped(st, ks)
           hs == UNION {Por!ShotOf(now, k) : k \in ks}
           xs == UNION {Por!CastOf(now, k) : k \in ks}
           mid == Por!ShotsDone(now, hs)
<1>1. Por!Failed(st, ks) = Por!CloseSessions(mid, xs)
  BY DEF Por!Failed
<1>0. DOMAIN st = Parts
  BY DEF Kept, Typed
<1>2. /\ DOMAIN now = Parts /\ now.calls = st.calls /\ now.owed = st.owed
      /\ now.wrong = st.wrong /\ now.sessions = st.sessions
      /\ now.timers = st.timers
      /\ now.frames = [k \in FrameIds |-> IF k \in ks THEN None ELSE st.frames[k]]
  BY <1>0, DroppedIs
<1> HIDE DEF now
<1>3. hs \subseteq Handles /\ \A h \in hs : now.calls[h] # None /\ now.calls[h].kind = "shot"
  BY DEF Por!ShotOf, Por!Shots
<1>4. xs \subseteq Paths
  BY DEF Por!CastOf
<1>5. \A h \in Handles : st.calls[h] # None /\ st.calls[h].kind = "shot" /\ <<h, 0>> \in ks => h \in hs
  BY <1>2 DEF Por!ShotOf, Por!Shots
<1>6. \A p \in Paths : st.sessions[p] # None /\ st.sessions[p].capture \in ks => p \in xs
  BY <1>2 DEF Por!CastOf
<1> HIDE DEF hs, xs
<1>7. Kept(now, xs, hs)
  BY <1>5, <1>6, DroppedKeeps DEF now
<1>8. Kept(mid, xs, hs \ hs)
  BY <1>3, <1>7, ShotsDoneKeeps
<1> HIDE DEF mid
<1>9. Kept(Por!CloseSessions(mid, xs), xs \ xs, hs \ hs)
  BY <1>4, <1>8, CloseSessionsKeeps
<1>10. xs \ xs \subseteq {} /\ hs \ hs \subseteq {}
  OBVIOUS
<1> QED BY <1>1, <1>9, <1>10, KeptMore

\* A session waits for nothing.
Idle(st, p) == [st EXCEPT !.sessions[p].capture = None]

LEMMA IdleIs ==
  ASSUME NEW st, DOMAIN st = Parts, NEW p
  PROVE  /\ DOMAIN Idle(st, p) = Parts
         /\ Idle(st, p).calls = st.calls /\ Idle(st, p).owed = st.owed
         /\ Idle(st, p).wrong = st.wrong /\ Idle(st, p).frames = st.frames
         /\ Idle(st, p).timers = st.timers
         /\ Idle(st, p).sessions = [st.sessions EXCEPT ![p] = [st.sessions[p] EXCEPT !.capture = None]]
BY DEF Idle, Parts

\* The frame of a session is taken and the session does not wait for it any longer.
LEMMA IdleKeeps ==
  ASSUME PartnersAssumption, NEW st, NEW p \in Paths, Kept(st, {p}, {}), st.sessions[p] # None,
         st.sessions[p].capture # None, st.frames[st.sessions[p].capture] = None
  PROVE  /\ Kept(Idle(st, p), {}, {})
         /\ Idle(st, p).sessions[p] # None
         /\ Idle(st, p).sessions[p].stage = st.sessions[p].stage
         /\ Idle(st, p).sessions[p].capture = None
         /\ \/ Idle(st, p).sessions[p].again
            \/ Idle(st, p).sessions[p].source # None /\ Por!Settle(p) \notin Idle(st, p).timers
<1> DEFINE old == st.sessions[p]
           s == [old EXCEPT !.capture = None]
           to == Idle(st, p)
           xs == {p}
<1>i. Typed(st) /\ CallsKept(st) /\ SessionsKept(st) /\ FramesKept(st)
  BY DEF Kept
<1>1. old \in SessionRecords /\ DOMAIN st = Parts /\ st.sessions \in [Paths -> {None} \cup SessionRecords]
  BY <1>i DEF Typed
<1>2. /\ s \in SessionRecords /\ s.capture = None /\ s.stage = old.stage /\ s.source = old.source
      /\ s.request = old.request /\ s.stream = old.stream /\ s.again = old.again
  <2> DEFINE k == None
  <2>1. k \in FrameIds \cup {None} /\ s = [old EXCEPT !.capture = k]
    OBVIOUS
  <2> HIDE DEF k, s, old
  <2>2. /\ s \in SessionRecords /\ s.capture = k /\ s.stage = old.stage /\ s.source = old.source
        /\ s.request = old.request /\ s.stream = old.stream /\ s.again = old.again
    BY <1>1, <2>1, CaptureSet
  <2> QED BY <2>2 DEF k
<1>3. /\ DOMAIN to = Parts /\ to.calls = st.calls /\ to.owed = st.owed /\ to.wrong = st.wrong
      /\ to.frames = st.frames /\ to.timers = st.timers /\ to.sessions = [st.sessions EXCEPT ![p] = s]
  BY <1>1, IdleIs
<1>4. /\ old.again \/ (old.source # None /\ Por!Settle(p) \notin st.timers)
      /\ Right(old, p, st.timers)
  <2>1. Right(old, p, st.timers)
    BY <1>i DEF SessionsKept
  <2> QED BY <2>1 DEF Right
<1>5. \A n \in {0, 1} : st.frames[<<p, n>>] # None => s.capture = <<p, n>> \/ st.frames[<<p, n>>].again
  <2> SUFFICES ASSUME NEW n \in {0, 1}, st.frames[<<p, n>>] # None PROVE st.frames[<<p, n>>].again
    OBVIOUS
  <2> DEFINE j == <<p, n>>
  <2>1. j \in FrameIds /\ j[1] = p /\ st.frames[j] # None
    BY DEF FrameIds
  <2> HIDE DEF j
  <2>2. st.sessions[p].capture = j \/ st.frames[j].again
    BY <1>i, <2>1, IdleFrames
  <2> QED BY <2>1, <2>2 DEF j
<1>6. \A h \in Handles : st.calls[h] # None /\ st.calls[h].path = p /\ st.calls[h].dialog => old.source = None
  BY <1>i, NoDialog
<1>7. /\ s.stage = st.sessions[p].stage /\ s.request = st.sessions[p].request
      /\ s.capture = None /\ Right(s, p, st.timers)
      /\ Kept(st, xs, {}) /\ p \in xs
  <2>1. Right(s, p, st.timers)
    <3> HIDE DEF old, s
    <3> QED BY <1>2, <1>4 DEF Right
  <2> QED BY <1>2, <2>1
<1>e. /\ \A h \in Handles : st.calls[h] # None /\ st.calls[h].path = p /\ st.calls[h].dialog => s.source = None
      /\ s.stage = old.stage /\ old.stage = st.sessions[p].stage
      /\ s.again \/ (s.source # None /\ Por!Settle(p) \notin st.timers)
  BY <1>2, <1>4, <1>6
<1> HIDE DEF to, s, xs, old
<1>8. Kept(to, xs, {})
  BY <1>2, <1>3, <1>5, <1>7, <1>e, SessionChanged
<1>9. to.sessions[p] = s /\ s # None
  BY <1>1, <1>2, <1>3, PortalNone
<1>10. Kept(to, {p}, {None}) /\ None \notin Handles /\ Given(to.sessions[p], to.frames)
  BY <1>7, <1>8, <1>9, KeptMore, PortalNone DEF xs, Given
<1>11. Kept(to, {}, {})
  BY <1>10, KeptLess
<1> QED BY <1>3, <1>7, <1>9, <1>11, <1>e DEF to

\* Whether the first frame is still to come changes, and nothing else.
Begun(st, p, b) == [st EXCEPT !.sessions[p].first = b]

LEMMA BegunKeeps ==
  ASSUME PartnersAssumption, NEW st, NEW p \in Paths, NEW b \in BOOLEAN, Kept(st, {}, {}), st.sessions[p] # None
  PROVE  Kept(Begun(st, p, b), {}, {}) /\ Begun(st, p, b).sessions[p] # None
<1> DEFINE old == st.sessions[p]
           s == [old EXCEPT !.first = b]
           to == Begun(st, p, b)
<1>1. old \in SessionRecords /\ DOMAIN st = Parts /\ st.sessions \in [Paths -> {None} \cup SessionRecords]
  BY DEF Kept, Typed
<1>2. /\ s \in SessionRecords /\ s.stage = old.stage /\ s.request = old.request /\ s.source = old.source
      /\ s.capture = old.capture /\ s.stream = old.stream /\ s.again = old.again
  <2> HIDE DEF old
  <2> QED BY <1>1, FirstSet
<1>3. /\ DOMAIN to = Parts /\ to.calls = st.calls /\ to.owed = st.owed /\ to.wrong = st.wrong
      /\ to.frames = st.frames /\ to.timers = st.timers /\ to.sessions = [st.sessions EXCEPT ![p] = s]
  BY <1>1 DEF Begun, Parts
<1>4. /\ s.stage = st.sessions[p].stage /\ s.request = st.sessions[p].request
      /\ s.source = st.sessions[p].source /\ s.capture = st.sessions[p].capture
      /\ s.stream = st.sessions[p].stream /\ s.again = st.sessions[p].again
  <2> HIDE DEF s
  <2> QED BY <1>2
<1> HIDE DEF to, s, old
<1>5. Kept(to, {}, {})
  BY <1>2, <1>3, <1>4, SessionTuned
<1>6. to.sessions[p] = s /\ s # None
  BY <1>1, <1>2, <1>3, PortalNone
<1> QED BY <1>5, <1>6 DEF to

\* finishFrame() of a frame that is ready: the one that waits for it goes on.
LEMMA CapturedKeeps ==
  ASSUME PartnersAssumption, NEW st, NEW k \in FrameIds, NEW same \in BOOLEAN, NEW starts \in BOOLEAN,
         Kept(st, {}, {})
  PROVE  Kept(Por!Captured(st, k, same, starts), {}, {})
<1> DEFINE ks == {k}
           now == Por!Dropped(st, ks)
           casts == Por!CastOf(now, k)
           to == Por!Captured(st, k, same, starts)
<1>i. Typed(st) /\ CallsKept(st) /\ SessionsKept(st) /\ FramesKept(st)
  BY DEF Kept
<1>0. DOMAIN st = Parts /\ \A j : j \in ks <=> j = k
  BY <1>i DEF Typed
<1> HIDE DEF ks
<1>1. /\ DOMAIN now = Parts /\ now.calls = st.calls /\ now.owed = st.owed
      /\ now.wrong = st.wrong /\ now.sessions = st.sessions
      /\ now.timers = st.timers
      /\ now.frames = [j \in FrameIds |-> IF j \in ks THEN None ELSE st.frames[j]]
  BY <1>0, DroppedIs
<1>2. now.frames[k] = None
  BY <1>0, <1>1
<1>3. casts = {p \in Paths : st.sessions[p] # None /\ st.sessions[p].capture = k}
  <2> HIDE DEF now
  <2> QED BY <1>1 DEF Por!CastOf
<1>c. k # None
  BY PortalNone
<1>4. CASE casts # {}
  <2> DEFINE p == CHOOSE q \in casts : TRUE
             idle == Idle(now, p)
             xs == {p}
  <2>1. p \in Paths /\ st.sessions[p] # None /\ st.sessions[p].capture = k
    <3> HIDE DEF casts
    <3>1. p \in casts
      BY <1>4
    <3> QED BY <1>3, <3>1
  <2>2. to = (CASE idle.sessions[p].stage = "starting" -> Por!BeginPipeWire(idle, p, starts)
                [] idle.sessions[p].stage = "active" ->
                     IF same THEN idle ELSE Por!CloseSession(idle, p)
                [] OTHER -> idle)
    BY <1>4 DEF Por!Captured, ks, Idle
  <2> HIDE DEF casts, now, to, p
  <2>3. k[1] = p
    BY <1>c, <1>i, <2>1 DEF SessionsKept, Right
  <2>4. \A q \in Paths : st.sessions[q] # None /\ st.sessions[q].capture \in ks => q \in xs
    BY <1>0, <1>c, <1>i, <2>3 DEF SessionsKept, Right
  <2>5. \A h \in Handles : <<h, 0>> \notin ks
    BY <1>0, <2>1, <2>3, PortalNone
  <2> HIDE DEF xs
  <2>6. Kept(now, xs, {})
    BY <2>4, <2>5, DroppedKeeps DEF now
  <2>7. Kept(now, {p}, {}) /\ now.sessions[p] # None /\ now.sessions[p].capture # None
        /\ now.frames[now.sessions[p].capture] = None
    BY <1>1, <1>2, <1>c, <2>1, <2>6 DEF xs
  <2>8. /\ Kept(idle, {}, {}) /\ idle.sessions[p] # None
        /\ \/ idle.sessions[p].again
           \/ idle.sessions[p].source # None /\ Por!Settle(p) \notin idle.timers
    BY <2>1, <2>7, IdleKeeps
  <2> HIDE DEF idle
  <2>9. idle.sessions[p].stage = "starting" => Kept(Por!BeginPipeWire(idle, p, starts), {}, {})
    BY <2>1, <2>8, BeginPipeWireKeeps
  <2>11. Kept(Por!CloseSession(idle, p), {}, {})
    BY <2>1, <2>8, CloseSessionKeeps, KeptMore
  <2> QED BY <2>2, <2>8, <2>9, <2>11 DEF to
<1>5. CASE casts = {} /\ Por!ShotOf(now, k) # {}
  <2> DEFINE h == k[1]
             hs == {h}
  <2>1. to = Por!CaptureReady(now, h)
    BY <1>5 DEF Por!Captured, ks
  <2>2. h \in Handles /\ st.calls[h] # None /\ st.calls[h].kind = "shot"
    <3> HIDE DEF now
    <3> QED BY <1>1, <1>5 DEF Por!ShotOf, Por!Shots
  <2> HIDE DEF to
  <2>3. \A q \in Paths : st.sessions[q] # None => st.sessions[q].capture \notin ks
    BY <1>0, <1>3, <1>5
  <2>4. \A g \in Handles : <<g, 0>> \in ks => g \in hs
    BY <1>0
  <2> HIDE DEF hs
  <2>5. Kept(now, {}, hs)
    BY <2>3, <2>4, DroppedKeeps
  <2>6. Kept(now, {}, {h}) /\ now.calls[h] # None /\ now.calls[h].kind = "shot"
    <3> HIDE DEF now
    <3> QED BY <1>1, <2>2, <2>5 DEF hs
  <2> HIDE DEF now, h
  <2>7. Kept(Por!CaptureReady(now, h), {}, {})
    BY <2>2, <2>6, CaptureReadyKeeps
  <2> QED BY <2>1, <2>7 DEF to
<1>6. CASE casts = {} /\ Por!ShotOf(now, k) = {}
  <2>1. to = now
    BY <1>6 DEF Por!Captured, ks
  <2>2. \A h \in Handles : ~(st.calls[h] # None /\ st.calls[h].kind = "shot" /\ <<h, 0>> \in ks)
    <3> HIDE DEF now
    <3> QED BY <1>0, <1>1, <1>6 DEF Por!ShotOf, Por!Shots
  <2>3. \A q \in Paths : st.sessions[q] # None => st.sessions[q].capture \notin ks
    BY <1>0, <1>3, <1>6
  <2> HIDE DEF to
  <2>4. Kept(now, {}, {})
    BY <2>2, <2>3, DroppedKeeps
  <2> QED BY <2>1, <2>4 DEF to
<1> QED BY <1>4, <1>5, <1>6

-----------------------------------------------------------------------------
(* The steps. *)

Of(c, o, w, s, f, t) ==
  [calls |-> c, owed |-> o, wrong |-> w, sessions |-> s, frames |-> f, timers |-> t]

LEMMA OfIs ==
  ASSUME NEW c, NEW o, NEW w, NEW s, NEW f, NEW t
  PROVE  /\ DOMAIN Of(c, o, w, s, f, t) = Parts
         /\ Of(c, o, w, s, f, t).calls = c /\ Of(c, o, w, s, f, t).owed = o
         /\ Of(c, o, w, s, f, t).wrong = w /\ Of(c, o, w, s, f, t).sessions = s
         /\ Of(c, o, w, s, f, t).frames = f /\ Of(c, o, w, s, f, t).timers = t
BY DEF Of, Parts

LEMMA HereIs ==
  /\ DOMAIN Por!Here = Parts
  /\ Por!Here.calls = v1 /\ Por!Here.owed = v2 /\ Por!Here.wrong = v3
  /\ Por!Here.sessions = v4 /\ Por!Here.frames = v5 /\ Por!Here.timers = v6
BY DEF Por!Here, Parts

LEMMA HereKept ==
  ASSUME NEW st, Kept(st, {}, {}), Por!Set(st)
  PROVE  Kept(Por!Here, {}, {})'
<1> DEFINE to == Por!Here'
<1>1. /\ DOMAIN to = Parts /\ to.calls = v1' /\ to.owed = v2' /\ to.wrong = v3'
      /\ to.sessions = v4' /\ to.frames = v5' /\ to.timers = v6'
  BY DEF Por!Here, Parts
<1>2. /\ v1' = st.calls /\ v2' = st.owed /\ v3' = st.wrong
      /\ v4' = st.sessions /\ v5' = st.frames /\ v6' = st.timers
  BY DEF Por!Set
<1>3. Kept(Por!Here, {}, {})' <=> Kept(to, {}, {})
  BY DEF Kept, Typed, CallsKept, CallKept, SessionsKept, Begins, FramesKept, Due, Served
<1> HIDE DEF to
<1>4. Kept(to, {}, {})
  BY <1>1, <1>2, SameKept
<1> QED BY <1>3, <1>4

\* A session is new.
LEMMA SessionAdded ==
  ASSUME PartnersAssumption, NEW st, NEW to, Kept(st, {}, {}), DOMAIN to = Parts, NEW p \in Paths,
         st.sessions[p] = None, NEW b \in BOOLEAN, Por!Settle(p) \in st.timers => b,
         to.sessions = [st.sessions EXCEPT ![p] = Por!Fresh(b)],
         to.calls = st.calls, to.owed = st.owed, to.wrong = st.wrong, to.frames = st.frames,
         to.timers = st.timers
  PROVE  Kept(to, {}, {})
<1> DEFINE s == Por!Fresh(b)
<1>i. Typed(st) /\ CallsKept(st) /\ SessionsKept(st) /\ FramesKept(st) /\ Served(st, {}, {})
  BY DEF Kept
<1>1. /\ s \in SessionRecords /\ s.stage = "created" /\ s.source = None /\ s.capture = None
      /\ s.stream = FALSE /\ s.again = b
  BY DEF Por!Fresh, SessionRecords
<1> HIDE DEF s
<1>2. s # None
  BY <1>1, PortalNone
<1>3. to.sessions[p] = s /\ \A q \in Paths : q # p => to.sessions[q] = st.sessions[q]
  BY <1>i DEF Typed, s
<1>4. Typed(to)
  BY <1>1, <1>i DEF Typed, s
<1>5. CallsKept(to)
  <2>1. ASSUME NEW h \in Handles PROVE CallKept(to, h)
    <3>1. CallKept(st, h)
      BY <1>i DEF CallsKept
    <3>2. st.calls[h] # None => st.calls[h].path # p /\ st.calls[h].path \in Paths \cup {None}
      BY <1>i, <3>1 DEF CallKept, Typed, CallRecords
    <3>3. st.calls[h] # None /\ st.calls[h].kind = "start" => st.calls[h].path # None
      BY <3>1 DEF CallKept
    <3> QED BY <1>3, <3>1, <3>2, <3>3 DEF CallKept
  <2> QED BY <1>i, <2>1 DEF CallsKept
<1>6. SessionsKept(to)
  <2>1. Right(s, p, st.timers) /\ Begins(to, p)
    BY <1>1, <1>3 DEF Right, Begins
  <2>2. \A q \in Paths : q # p /\ to.sessions[q] # None => Right(st.sessions[q], q, st.timers) /\ Begins(st, q)
    BY <1>3, <1>i DEF SessionsKept
  <2>3. \A q \in Paths : q # p /\ Begins(st, q) => Begins(to, q)
    BY <1>3 DEF Begins
  <2> QED BY <1>3, <2>1, <2>2, <2>3 DEF SessionsKept
<1>7. FramesKept(to)
  BY <1>3, <1>i DEF FramesKept, Due
<1>8. Served(to, {}, {})
  BY <1>1, <1>3, <1>i DEF Served, Given
<1> QED BY <1>4, <1>5, <1>6, <1>7, <1>8 DEF Kept

\* A session starts with a call that waits for the user.
LEMMA SessionStarted ==
  ASSUME PartnersAssumption, NEW st, NEW to, Kept(st, {}, {}), DOMAIN to = Parts,
         NEW p \in Paths, NEW h \in Handles, st.sessions[p] # None, st.sessions[p].stage = "selected",
         st.calls[h] = None, NEW s \in SessionRecords, NEW c \in CallRecords,
         s.stage = "starting", s.request = h, s.source = st.sessions[p].source,
         s.capture = st.sessions[p].capture, s.stream = st.sessions[p].stream, s.again = st.sessions[p].again,
         c.kind = "start", c.path = p,
         to.sessions = [st.sessions EXCEPT ![p] = s], to.calls = [st.calls EXCEPT ![h] = c],
         to.owed = st.owed \cup {h}, to.wrong = st.wrong, to.frames = st.frames,
         to.timers = st.timers
  PROVE  Kept(to, {}, {})
<1>i. Typed(st) /\ CallsKept(st) /\ SessionsKept(st) /\ FramesKept(st) /\ Served(st, {}, {})
  BY DEF Kept
<1>1. s # None /\ c # None /\ None \notin Paths /\ None \notin Handles
  BY PortalNone
<1>2. to.sessions[p] = s /\ \A q \in Paths : q # p => to.sessions[q] = st.sessions[q]
  BY <1>i DEF Typed
<1>3. to.calls[h] = c /\ \A g \in Handles : g # h => to.calls[g] = st.calls[g]
  BY <1>i DEF Typed
<1>4. Typed(to)
  BY <1>i DEF Typed
<1>5. s.source = None /\ s.capture = None /\ ~s.stream /\ Right(s, p, to.timers)
  <2>1. Right(st.sessions[p], p, st.timers)
    BY <1>i DEF SessionsKept
  <2> QED BY <2>1 DEF Right
<1>6. CallsKept(to)
  <2>1. ASSUME NEW g \in Handles, g # h PROVE CallKept(to, g)
    <3>1. CallKept(st, g)
      BY <1>i DEF CallsKept
    <3>2. st.calls[g] # None => st.calls[g].path \in Paths \cup {None}
      BY <1>i DEF Typed, CallRecords
    <3>3. st.calls[g] # None /\ st.calls[g].kind = "start" => st.calls[g].path # None /\ st.calls[g].path # p
      BY <3>1 DEF CallKept
    <3> QED BY <1>1, <1>2, <1>3, <2>1, <3>1, <3>2, <3>3 DEF CallKept
  <2>2. CallKept(to, h)
    BY <1>1, <1>2, <1>3, <1>5 DEF CallKept
  <2>3. \A g \in Handles : CallKept(to, g)
    BY <2>1, <2>2
  <2>4. to.wrong = FALSE /\ to.owed = {g \in Handles : to.calls[g] # None}
    BY <1>1, <1>3, <1>i DEF CallsKept
  <2>5. \A g \in Handles : Por!Reply(g) \in to.timers => to.calls[g] # None /\ to.calls[g].kind \in {"create", "select"}
    BY <1>3, <1>i DEF CallsKept
  <2> QED BY <2>3, <2>4, <2>5 DEF CallsKept
<1>7. SessionsKept(to)
  <2>1. \A q \in Paths : st.sessions[q] # None => st.sessions[q].request \in Handles \cup {None}
    BY <1>i DEF Typed, SessionRecords
  <2>2. \A q \in Paths : st.sessions[q] # None /\ st.sessions[q].stage = "starting" =>
          st.sessions[q].request # h
    BY <1>i DEF SessionsKept, Begins
  <2>3. \A q \in Paths : st.sessions[q] # None /\ st.sessions[q].stage = "starting" =>
          st.sessions[q].request \in Handles /\ to.calls[st.sessions[q].request] = st.calls[st.sessions[q].request]
    BY <1>3, <1>i, <2>1, <2>2 DEF SessionsKept, Begins
  <2> SUFFICES ASSUME NEW q \in Paths, to.sessions[q] # None
               PROVE  Right(to.sessions[q], q, to.timers) /\ Begins(to, q)
    BY DEF SessionsKept
  <2>6. CASE q = p
    BY <1>1, <1>2, <1>3, <1>5, <2>6 DEF Begins
  <2>7. CASE q # p
    BY SMTT(30), <1>2, <1>i, <2>3, <2>7 DEF SessionsKept, Begins
  <2> QED BY <2>6, <2>7
<1>8. FramesKept(to)
  <2> SUFFICES ASSUME NEW k \in FrameIds, st.frames[k] # None PROVE Due(to, k)
    BY DEF FramesKept
  <2>1. Due(st, k) /\ k # None /\ Paths \cap Handles = {} /\ st.sessions[p].capture = None
    BY <1>5, <1>i, PortalNone DEF FramesKept
  <2>2. CASE k[1] \in Paths /\ st.frames[k].again
    BY <2>2 DEF Due
  <2>3. CASE k[1] \in Paths /\ st.sessions[k[1]] # None /\ st.sessions[k[1]].capture = k
    <3>1. k[1] # p
      BY <2>1, <2>3
    <3> QED BY <1>2, <2>3, <3>1 DEF Due
  <2>4. CASE k[1] \in Handles /\ k[2] = 0 /\ st.calls[k[1]] # None /\ st.calls[k[1]].kind = "shot"
    <3>1. k[1] # h
      BY <2>4
    <3> QED BY <1>3, <2>4, <3>1 DEF Due
  <2> QED BY <2>1, <2>2, <2>3, <2>4 DEF Due
<1>9. Served(to, {}, {})
  BY <1>2, <1>3, <1>5, <1>i DEF Served, Given
<1> QED BY <1>4, <1>6, <1>7, <1>8, <1>9 DEF Kept

\* A session's stream is ready and the call that started it is answered.
LEMMA SessionRuns ==
  ASSUME PartnersAssumption, NEW st, NEW to, Kept(st, {}, {}), DOMAIN to = Parts,
         NEW p \in Paths, NEW h \in Handles, st.sessions[p] # None, st.sessions[p].stage = "starting",
         st.sessions[p].request = h, st.sessions[p].stream, NEW s \in SessionRecords,
         s.stage = "active", s.source = st.sessions[p].source,
         s.capture = st.sessions[p].capture, s.stream, s.again = st.sessions[p].again,
         to.sessions = [st.sessions EXCEPT ![p] = s], to.calls = [st.calls EXCEPT ![h] = None],
         to.owed = st.owed \ {h}, to.wrong = FALSE, to.frames = st.frames,
         to.timers = st.timers \ {Por!Reply(h)}
  PROVE  Kept(to, {}, {})
<1>i. Typed(st) /\ CallsKept(st) /\ SessionsKept(st) /\ FramesKept(st) /\ Served(st, {}, {})
  BY DEF Kept
<1>1. s # None /\ None \notin Paths /\ None \notin Handles
  BY PortalNone
<1>2. to.sessions[p] = s /\ \A q \in Paths : q # p => to.sessions[q] = st.sessions[q]
  BY <1>i DEF Typed
<1>3. to.calls[h] = None /\ \A g \in Handles : g # h => to.calls[g] = st.calls[g]
  BY <1>i DEF Typed
<1>4. Typed(to)
  BY <1>i DEF Typed
<1>5. /\ st.calls[h] # None /\ st.calls[h].kind = "start" /\ st.calls[h].path = p
      /\ Right(s, p, st.timers) /\ s.stream
  <2>1. Right(st.sessions[p], p, st.timers) /\ Begins(st, p)
    BY <1>i DEF SessionsKept
  <2>2. Right(s, p, st.timers)
    BY <2>1 DEF Right
  <2> QED BY <2>1, <2>2 DEF Begins
<1>6. CallsKept(to)
  <2>1. ASSUME NEW g \in Handles, g # h PROVE CallKept(to, g)
    <3>1. CallKept(st, g)
      BY <1>i DEF CallsKept
    <3>2. st.calls[g] # None => st.calls[g].path \in Paths \cup {None}
      BY <1>i DEF Typed, CallRecords
    <3>3. st.calls[g] # None /\ st.calls[g].kind = "start" => st.calls[g].path # None /\ st.calls[g].path # p
      BY <2>1, <3>1 DEF CallKept
    <3> QED BY <1>1, <1>2, <1>3, <2>1, <3>1, <3>2, <3>3 DEF CallKept
  <2>2. CallKept(to, h)
    BY <1>3 DEF CallKept
  <2>3. \A g \in Handles : CallKept(to, g)
    BY <2>1, <2>2
  <2>4. to.wrong = FALSE /\ to.owed = {g \in Handles : to.calls[g] # None}
    BY <1>3, <1>i DEF CallsKept
  <2>5. \A g \in Handles : Por!Reply(g) \in to.timers => to.calls[g] # None /\ to.calls[g].kind \in {"create", "select"}
    BY <1>3, <1>i DEF CallsKept
  <2> QED BY <2>3, <2>4, <2>5 DEF CallsKept
<1>7. SessionsKept(to)
  <2>1. \A q \in Paths : st.sessions[q] # None => st.sessions[q].request \in Handles \cup {None}
    BY <1>i DEF Typed, SessionRecords
  <2>2. \A q \in Paths : q # p /\ st.sessions[q] # None /\ st.sessions[q].stage = "starting" =>
          st.sessions[q].request # h
    BY <1>5, <1>i DEF SessionsKept, Begins
  <2>3. \A q \in Paths : q # p /\ st.sessions[q] # None /\ st.sessions[q].stage = "starting" =>
          st.sessions[q].request \in Handles /\ to.calls[st.sessions[q].request] = st.calls[st.sessions[q].request]
    BY <1>3, <1>i, <2>1, <2>2 DEF SessionsKept, Begins
  <2>5. \A q \in Paths : Por!Settle(q) \in to.timers => Por!Settle(q) \in st.timers
    OBVIOUS
  <2> SUFFICES ASSUME NEW q \in Paths, to.sessions[q] # None
               PROVE  Right(to.sessions[q], q, to.timers) /\ Begins(to, q)
    BY DEF SessionsKept
  <2>6. CASE q = p
    BY <1>1, <1>2, <1>5, <2>5, <2>6 DEF Right, Begins
  <2>7. CASE q # p
    BY SMTT(30), <1>2, <1>i, <2>3, <2>5, <2>7 DEF SessionsKept, Begins, Right
  <2> QED BY <2>6, <2>7
<1>8. FramesKept(to)
  BY <1>1, <1>2, <1>3, <1>5, <1>i DEF FramesKept, Due
<1>9. Served(to, {}, {})
  BY <1>1, <1>2, <1>3, <1>5, <1>i DEF Served, Given
<1> QED BY <1>4, <1>6, <1>7, <1>8, <1>9 DEF Kept

Whole == Kept(Por!Here, {}, {})

\* A timer has fired.
Untimed(st, x) == [st EXCEPT !.timers = @ \ {x}]

LEMMA UntimedKeeps ==
  ASSUME PartnersAssumption, NEW st, NEW x, Kept(st, {}, {})
  PROVE  /\ Kept(Untimed(st, x), {}, {}) /\ x \notin Untimed(st, x).timers
         /\ Untimed(st, x).calls = st.calls /\ Untimed(st, x).sessions = st.sessions
<1> DEFINE to == Untimed(st, x)
<1>1. DOMAIN st = Parts
  BY DEF Kept, Typed
<1>2. /\ DOMAIN to = Parts /\ to.calls = st.calls /\ to.owed = st.owed /\ to.wrong = st.wrong
      /\ to.sessions = st.sessions /\ to.frames = st.frames /\ to.timers = st.timers \ {x}
  BY <1>1 DEF Untimed, Parts
<1> HIDE DEF to
<1>3. \A y : y \in to.timers => y \in st.timers
  BY <1>2
<1>4. Kept(to, {}, {})
  BY <1>2, <1>3, TimersChanged
<1> QED BY <1>2, <1>4 DEF to

LEMMA CompleteKeeps ==
  ASSUME PartnersAssumption, NEW st, NEW h \in Handles, Kept(st, {}, {}),
         st.calls[h] # None => st.calls[h].kind \in {"create", "select", "access", "file"}
  PROVE  Kept(Por!Complete(st, h), {}, {})
<1>1. CASE st.calls[h] = None
  <2>1. Por!Complete(st, h) = st
    BY <1>1 DEF Por!Complete
  <2> QED BY <2>1
<1>2. CASE st.calls[h] # None
  <2> DEFINE cs == {h}
  <2>1. Por!Complete(st, h) = Por!Answered(st, cs)
    BY <1>2 DEF Por!Complete
  <2>2. cs \in SUBSET Handles /\ \A g \in cs : /\ st.calls[g] # None /\ st.calls[g].kind # "start"
                                               /\ st.calls[g].kind = "shot" => st.frames[<<g, 0>>] = None
    BY <1>2
  <2> HIDE DEF cs
  <2>3. Kept(Por!Answered(st, cs), {}, {} \ cs)
    BY <2>2, AnsweredKeeps
  <2> QED BY <2>1, <2>3, KeptMore
<1> QED BY <1>1, <1>2

LEMMA CreateSessionKeeps ==
  ASSUME PartnersAssumption, Whole, NEW h \in Handles, NEW p \in Paths, Por!CreateSession(h, p)
  PROVE  Whole'
<1> DEFINE again == Por!Settle(p) \in v6
           f == Por!Fresh(again)
           a == Por!Added(h, "create", p, None, FALSE)
           c == [kind |-> "create", path |-> p, stage |-> None, dialog |-> FALSE]
           ss == [v4 EXCEPT ![p] = f]
           cs == [v1 EXCEPT ![h] = c]
           ts == v6 \cup {Por!Reply(h)}
           one == Of(v1, v2, v3, ss, v5, v6)
           two == Of(cs, v2 \cup {h}, v3, ss, v5, v6)
           to == [a EXCEPT !.sessions = ss, !.timers = ts]
           hs == {h}
<1>1. v1[h] = None /\ v4[p] = None
  BY DEF Por!CreateSession
<1>2. /\ DOMAIN a = Parts /\ a.calls = cs /\ a.owed = v2 \cup {h}
      /\ a.wrong = v3 /\ a.sessions = v4 /\ a.frames = v5 /\ a.timers = v6
  BY DEF Por!Added, Por!Here, Parts
<1>3. Por!Set(to)
  <2>1. [a EXCEPT !.sessions[p] = Por!Fresh(again), !.timers = @ \cup {Por!Reply(h)}] = to
    <3> HIDE DEF a
    <3> QED BY <1>2 DEF Parts
  <2>2. Por!Set([a EXCEPT !.sessions[p] = Por!Fresh(again), !.timers = @ \cup {Por!Reply(h)}])
    BY DEF Por!CreateSession, Por!Step
  <2> QED BY <2>1, <2>2
<1>4. c \in CallRecords /\ c.kind = "create" /\ c.path = p /\ c.dialog = FALSE
  BY DEF CallRecords
<1>5. Typed(Por!Here)
  BY DEF Whole, Kept
<1>6. v1 \in [Handles -> {None} \cup CallRecords] /\ v4 \in [Paths -> {None} \cup SessionRecords]
  BY <1>5, HereIs DEF Typed
<1> HIDE DEF c
<1>7. ss[p] # None
  <2>1. f \in SessionRecords
    BY DEF Por!Fresh, SessionRecords
  <2> QED BY <1>6, <2>1, PortalNone
<1>8. cs[h] = c /\ c # None
  BY <1>4, <1>6, PortalNone
<1>t. /\ DOMAIN to = Parts /\ to.calls = cs /\ to.owed = v2 \cup {h} /\ to.wrong = v3 /\ to.sessions = ss
      /\ to.frames = v5 /\ to.timers = ts
  <2> HIDE DEF a, ss, ts, cs
  <2> QED BY <1>2 DEF Parts
<1>a. /\ \A q \in Paths : Por!Settle(q) \in ts => Por!Settle(q) \in v6
      /\ \A g \in Handles : Por!Reply(g) \in ts => Por!Reply(g) \in v6 \/ g = h
  BY TimerKinds
<1>o. /\ DOMAIN one = Parts /\ one.calls = v1 /\ one.owed = v2 /\ one.wrong = v3
      /\ one.sessions = ss /\ one.frames = v5 /\ one.timers = v6
  BY OfIs
<1>w. /\ DOMAIN two = Parts /\ two.calls = cs /\ two.owed = v2 \cup {h} /\ two.wrong = v3
      /\ two.sessions = ss /\ two.frames = v5 /\ two.timers = v6
  BY OfIs
<1>h. h \in hs
  OBVIOUS
<1>f. ss = [v4 EXCEPT ![p] = f] /\ cs = [v1 EXCEPT ![h] = c]
  OBVIOUS
<1>b. again \in BOOLEAN /\ (Por!Settle(p) \in v6 => again) /\ f = Por!Fresh(again)
  OBVIOUS
<1> HIDE DEF a, ss, cs, ts, one, two, to, hs, f, again
<1>9. Kept(one, {}, {})
  <2> DEFINE st == Por!Here
  <2>1. /\ DOMAIN st = Parts /\ st.calls = v1 /\ st.owed = v2 /\ st.wrong = v3 /\ st.sessions = v4
        /\ st.frames = v5 /\ st.timers = v6 /\ Kept(st, {}, {})
    BY HereIs DEF Whole
  <2> HIDE DEF st
  <2>2. /\ p \in Paths /\ st.sessions[p] = None /\ DOMAIN one = Parts
        /\ (Por!Settle(p) \in st.timers => again)
        /\ one.sessions = [st.sessions EXCEPT ![p] = Por!Fresh(again)]
        /\ one.calls = st.calls /\ one.owed = st.owed /\ one.wrong = st.wrong
        /\ one.frames = st.frames /\ one.timers = st.timers
    BY <1>1, <1>o, <1>f, <1>b, <2>1
  <2>3. Kept(st, {}, {}) /\ again \in BOOLEAN
    BY <1>b, <2>1
  <2> QED BY ONLY PartnersAssumption, <2>2, <2>3, SessionAdded
<1>10. Kept(one, {}, hs)
  BY <1>9, KeptMore
<1>11. Kept(two, {}, hs)
  <2>1. /\ c.kind \in {"create", "select"} /\ c.path \in Paths /\ one.sessions[c.path] # None /\ ~c.dialog
        /\ one.calls[h] = None /\ two.calls = [one.calls EXCEPT ![h] = c]
        /\ two.owed = one.owed \cup {h} /\ two.wrong = one.wrong /\ two.sessions = one.sessions
        /\ two.frames = one.frames /\ two.timers = one.timers
    BY <1>1, <1>4, <1>7, <1>o, <1>w, <1>f
  <2> QED BY <1>4, <1>10, <1>w, <1>h, <2>1, CallAdded
<1>12. Kept(to, {}, hs)
  BY <1>4, <1>8, <1>11, <1>t, <1>w, <1>a, TimersChanged
<1>13. Kept(to, {None}, {h}) /\ None \notin Paths
  BY <1>12, KeptMore, PortalNone DEF hs
<1>14. Kept(to, {}, {})
  BY <1>4, <1>8, <1>13, <1>t, KeptLess
<1> QED BY <1>3, <1>14, HereKept DEF Whole

LEMMA SelectSourcesKeeps ==
  ASSUME PartnersAssumption, Whole, NEW h \in Handles, NEW p \in Paths, Por!SelectSources(h, p)
  PROVE  Whole'
<1> DEFINE a == Por!Added(h, "select", p, None, FALSE)
           c == [kind |-> "select", path |-> p, stage |-> None, dialog |-> FALSE]
           old == v4[p]
           s == [old EXCEPT !.stage = "selected"]
           ss == [v4 EXCEPT ![p] = s]
           cs == [v1 EXCEPT ![h] = c]
           ts == v6 \cup {Por!Reply(h)}
           one == Of(v1, v2, v3, ss, v5, v6)
           two == Of(cs, v2 \cup {h}, v3, ss, v5, v6)
           to == [a EXCEPT !.sessions = ss, !.timers = ts]
           hs == {h}
           ps == {p}
           st == Por!Here
<1>0. /\ DOMAIN st = Parts /\ st.calls = v1 /\ st.owed = v2 /\ st.wrong = v3 /\ st.sessions = v4
      /\ st.frames = v5 /\ st.timers = v6 /\ Kept(st, {}, {})
  BY HereIs DEF Whole
<1>1. v1[h] = None /\ old # None /\ old.stage = "created"
  <2>1. "created" # None
    BY DEF PartnersAssumption
  <2> QED BY <2>1 DEF Por!SelectSources, Por!Stage, Por!Here
<1>2. /\ DOMAIN a = Parts /\ a.calls = cs /\ a.owed = v2 \cup {h}
      /\ a.wrong = v3 /\ a.sessions = v4 /\ a.frames = v5 /\ a.timers = v6
  BY DEF Por!Added, Por!Here, Parts
<1>3. Por!Set(to)
  <2>1. [a EXCEPT !.sessions[p].stage = "selected", !.timers = @ \cup {Por!Reply(h)}] = to
    <3> HIDE DEF a
    <3> QED BY <1>2 DEF Parts
  <2>2. Por!Set([a EXCEPT !.sessions[p].stage = "selected", !.timers = @ \cup {Por!Reply(h)}])
    BY DEF Por!SelectSources, Por!Step
  <2> QED BY <2>1, <2>2
<1>4. c \in CallRecords /\ c.kind = "select" /\ c.path = p /\ c.dialog = FALSE
  BY DEF CallRecords
<1> HIDE DEF st
<1>i. Typed(st) /\ CallsKept(st) /\ SessionsKept(st) /\ FramesKept(st)
  BY <1>0 DEF Kept
<1>6. v1 \in [Handles -> {None} \cup CallRecords] /\ v4 \in [Paths -> {None} \cup SessionRecords]
  BY <1>0, <1>i DEF Typed
<1>5. /\ s \in SessionRecords /\ s.stage = "selected" /\ s.source = old.source /\ s.capture = old.capture
      /\ s.request = old.request /\ s.stream = old.stream /\ s.again = old.again /\ old \in SessionRecords
  <2>1. old \in SessionRecords
    BY <1>1, <1>6
  <2> HIDE DEF old
  <2> QED BY <2>1, StageSet
<1> HIDE DEF c, s
<1>7. ss[p] = s /\ s # None
  BY <1>5, <1>6, PortalNone
<1>8. cs[h] = c /\ c # None
  BY <1>4, <1>6, PortalNone
<1>t. /\ DOMAIN to = Parts /\ to.calls = cs /\ to.owed = v2 \cup {h} /\ to.wrong = v3 /\ to.sessions = ss
      /\ to.frames = v5 /\ to.timers = ts
  <2> HIDE DEF a, ss, ts, cs
  <2> QED BY <1>2 DEF Parts
<1>a. /\ \A q \in Paths : Por!Settle(q) \in ts => Por!Settle(q) \in v6
      /\ \A g \in Handles : Por!Reply(g) \in ts => Por!Reply(g) \in v6 \/ g = h
  BY TimerKinds
<1>o. /\ DOMAIN one = Parts /\ one.calls = v1 /\ one.owed = v2 /\ one.wrong = v3
      /\ one.sessions = ss /\ one.frames = v5 /\ one.timers = v6
  BY OfIs
<1>w. /\ DOMAIN two = Parts /\ two.calls = cs /\ two.owed = v2 \cup {h} /\ two.wrong = v3
      /\ two.sessions = ss /\ two.frames = v5 /\ two.timers = v6
  BY OfIs
<1>h. h \in hs /\ p \in ps
  OBVIOUS
<1>f. ss = [v4 EXCEPT ![p] = s] /\ cs = [v1 EXCEPT ![h] = c] /\ old = v4[p]
  OBVIOUS
<1> HIDE DEF a, ss, cs, ts, one, two, to, hs, ps, old
<1>k. old.capture = None /\ s.source = None /\ Right(s, p, v6)
  <2>1. Right(old, p, v6)
    BY <1>0, <1>1, <1>f, <1>i DEF SessionsKept
  <2> QED BY <1>1, <1>5, <2>1 DEF Right
<1>n. \A n \in {0, 1} : st.frames[<<p, n>>] # None => st.frames[<<p, n>>].again
  <2> SUFFICES ASSUME NEW n \in {0, 1}, st.frames[<<p, n>>] # None PROVE st.frames[<<p, n>>].again
    OBVIOUS
  <2> DEFINE j == <<p, n>>
  <2>1. j \in FrameIds /\ j[1] = p /\ st.frames[j] # None
    BY DEF FrameIds
  <2> HIDE DEF j
  <2>2. st.frames[j].again \/ (st.sessions[p].capture = j /\ j # None)
    BY <1>i, <2>1, IdleFrames
  <2> QED BY <1>0, <1>f, <1>k, <2>2 DEF j
<1>9. Kept(one, ps, {})
  <2>1. Kept(st, ps, {})
    BY <1>0, KeptMore
  <2>2. /\ st.sessions[p] # None /\ st.sessions[p].stage # "starting" /\ s.stage # "starting"
        /\ one.sessions = [st.sessions EXCEPT ![p] = s] /\ s.source = None /\ Right(s, p, st.timers)
        /\ one.calls = st.calls /\ one.owed = st.owed /\ one.wrong = st.wrong /\ one.frames = st.frames
        /\ one.timers = st.timers
    BY <1>0, <1>1, <1>5, <1>o, <1>f, <1>k
  <2> QED BY <1>5, <1>h, <1>n, <1>o, <2>1, <2>2, SessionChanged
<1>10. Kept(one, {}, hs)
  <2>1. Kept(one, {p}, {None}) /\ None \notin Handles /\ Given(one.sessions[p], one.frames)
    BY <1>9, <1>o, <1>f, <1>5, <1>7, <1>k, KeptMore, PortalNone DEF ps, Given
  <2> HIDE DEF one
  <2>2. Kept(one, {}, {})
    BY <2>1, KeptLess
  <2> QED BY <2>2, KeptMore
<1>11. Kept(two, {}, hs)
  <2>1. /\ c.kind \in {"create", "select"} /\ c.path \in Paths /\ one.sessions[c.path] # None /\ ~c.dialog
        /\ one.calls[h] = None /\ two.calls = [one.calls EXCEPT ![h] = c]
        /\ two.owed = one.owed \cup {h} /\ two.wrong = one.wrong /\ two.sessions = one.sessions
        /\ two.frames = one.frames /\ two.timers = one.timers
    BY <1>1, <1>4, <1>7, <1>o, <1>w, <1>f
  <2> QED BY <1>4, <1>10, <1>w, <1>h, <2>1, CallAdded
<1>12. Kept(to, {}, hs)
  BY <1>4, <1>8, <1>11, <1>t, <1>w, <1>a, TimersChanged
<1>13. Kept(to, {None}, {h}) /\ None \notin Paths
  BY <1>12, KeptMore, PortalNone DEF hs
<1>14. Kept(to, {}, {})
  BY <1>4, <1>8, <1>13, <1>t, KeptLess
<1> QED BY <1>3, <1>14, HereKept DEF Whole

LEMMA StartKeeps ==
  ASSUME PartnersAssumption, Whole, NEW h \in Handles, NEW p \in Paths, Por!Start(h, p)
  PROVE  Whole'
<1> DEFINE a == Por!Added(h, "start", p, None, TRUE)
           c == [kind |-> "start", path |-> p, stage |-> None, dialog |-> TRUE]
           old == v4[p]
           mid == [old EXCEPT !.stage = "starting"]
           s == [mid EXCEPT !.request = h]
           f1 == [v4 EXCEPT ![p] = mid]
           ss == [v4 EXCEPT ![p] = s]
           cs == [v1 EXCEPT ![h] = c]
           to == [a EXCEPT !.sessions = ss]
           st == Por!Here
<1>0. /\ DOMAIN st = Parts /\ st.calls = v1 /\ st.owed = v2 /\ st.wrong = v3 /\ st.sessions = v4
      /\ st.frames = v5 /\ st.timers = v6 /\ Kept(st, {}, {})
  BY HereIs DEF Whole
<1>1. v1[h] = None /\ old # None /\ old.stage = "selected"
  <2>1. "selected" # None
    BY DEF PartnersAssumption
  <2> QED BY <2>1 DEF Por!Start, Por!Stage, Por!Here
<1>2. /\ DOMAIN a = Parts /\ a.calls = cs /\ a.owed = v2 \cup {h}
      /\ a.wrong = v3 /\ a.sessions = v4 /\ a.frames = v5 /\ a.timers = v6
  BY DEF Por!Added, Por!Here, Parts
<1>4. c \in CallRecords /\ c.kind = "start" /\ c.path = p
  BY DEF CallRecords
<1> HIDE DEF st
<1>6. v1 \in [Handles -> {None} \cup CallRecords] /\ v4 \in [Paths -> {None} \cup SessionRecords]
  BY <1>0 DEF Kept, Typed
<1>5. /\ s \in SessionRecords /\ s.stage = "starting" /\ s.source = old.source /\ s.capture = old.capture
      /\ s.request = h /\ s.stream = old.stream /\ s.again = old.again
  <2>1. old \in SessionRecords /\ h \in Handles \cup {None}
    BY <1>1, <1>6
  <2> HIDE DEF old
  <2>2. /\ mid \in SessionRecords /\ mid.stage = "starting" /\ mid.source = old.source
        /\ mid.capture = old.capture
        /\ mid.request = old.request /\ mid.stream = old.stream /\ mid.again = old.again
    BY <2>1, StageSet
  <2> HIDE DEF mid
  <2> QED BY <2>1, <2>2, RequestSet
<1>3. Por!Set(to)
  <2> DEFINE b1 == [a EXCEPT !.sessions = f1]
  <2>1. f1[p] = mid /\ [f1 EXCEPT ![p] = [f1[p] EXCEPT !.request = h]] = ss
    BY <1>6
  <2>2. DOMAIN b1 = Parts /\ b1.sessions = f1 /\ [a EXCEPT !.sessions[p].stage = "starting"] = b1
    <3> HIDE DEF a
    <3> QED BY <1>2 DEF Parts
  <2>3. [a EXCEPT !.sessions[p].stage = "starting", !.sessions[p].request = h]
        = [b1 EXCEPT !.sessions = [f1 EXCEPT ![p] = [f1[p] EXCEPT !.request = h]]]
    <3> HIDE DEF a, f1
    <3> QED BY <2>2
  <2>4. Por!Set([a EXCEPT !.sessions[p].stage = "starting", !.sessions[p].request = h])
    BY DEF Por!Start, Por!Step
  <2>5. Por!Set([b1 EXCEPT !.sessions = ss])
    <3> HIDE DEF b1, ss, f1
    <3> QED BY <2>1, <2>3, <2>4
  <2>6. [b1 EXCEPT !.sessions = ss] = to
    <3> HIDE DEF a, ss, f1
    <3> QED BY <1>2 DEF Parts
  <2> QED BY <2>5, <2>6
<1> HIDE DEF c, s
<1>t. /\ DOMAIN to = Parts /\ to.calls = cs /\ to.owed = v2 \cup {h} /\ to.wrong = v3 /\ to.sessions = ss
      /\ to.frames = v5 /\ to.timers = v6
  <2> HIDE DEF a, ss, cs
  <2> QED BY <1>2 DEF Parts
<1>f. ss = [v4 EXCEPT ![p] = s] /\ cs = [v1 EXCEPT ![h] = c] /\ old = v4[p]
  OBVIOUS
<1> HIDE DEF a, ss, cs, to, old
<1>7. /\ to.sessions = [st.sessions EXCEPT ![p] = s] /\ to.calls = [st.calls EXCEPT ![h] = c]
      /\ to.owed = st.owed \cup {h} /\ to.wrong = st.wrong /\ to.frames = st.frames
      /\ to.timers = st.timers /\ st.sessions[p] # None /\ st.sessions[p].stage = "selected"
      /\ st.calls[h] = None /\ s.source = st.sessions[p].source
      /\ s.capture = st.sessions[p].capture /\ s.stream = st.sessions[p].stream
      /\ s.again = st.sessions[p].again
  BY <1>0, <1>1, <1>5, <1>t, <1>f
<1>8. Kept(to, {}, {})
  BY <1>0, <1>4, <1>5, <1>7, <1>t, SessionStarted
<1> QED BY <1>3, <1>8, HereKept DEF Whole

LEMMA ReplyTimerKeeps ==
  ASSUME PartnersAssumption, Whole, NEW h \in Handles, Por!ReplyTimer(h)
  PROVE  Whole'
<1> DEFINE st == Untimed(Por!Here, Por!Reply(h))
<1>1. Por!Reply(h) \in v6 /\ Por!Set(Por!Complete(st, h))
  BY DEF Por!ReplyTimer, Por!Step, Untimed
<1>2. Kept(st, {}, {}) /\ st.calls = v1
  BY UntimedKeeps, HereIs DEF Whole
<1>3. v1[h] # None /\ v1[h].kind \in {"create", "select"}
  BY <1>1, HereIs DEF Whole, Kept, CallsKept
<1> HIDE DEF st
<1>4. Kept(Por!Complete(st, h), {}, {})
  BY <1>2, <1>3, CompleteKeeps
<1> QED BY <1>1, <1>4, HereKept DEF Whole

\* The user shares a source.
LEMMA ShareKeeps ==
  ASSUME PartnersAssumption, Whole, NEW h \in Handles, NEW x \in Sources, Por!Share(h, x)
  PROVE  Whole'
<1> DEFINE old == v1[h]
           c == [old EXCEPT !.dialog = FALSE]
           p == old.path
           was == v4[p]
           s == [was EXCEPT !.source = x]
           cs == [v1 EXCEPT ![h] = c]
           ss == [v4 EXCEPT ![p] = s]
           one == Of(cs, v2, v3, v4, v5, v6)
           chosen == [Por!Here EXCEPT !.sessions = ss, !.calls = cs]
           ts == v6 \cup {Por!Settle(p)}
           to == [chosen EXCEPT !.timers = ts]
           st == Por!Here
           hs == {h}
           ps == {p}
<1>0. /\ DOMAIN st = Parts /\ st.calls = v1 /\ st.owed = v2 /\ st.wrong = v3 /\ st.sessions = v4
      /\ st.frames = v5 /\ st.timers = v6 /\ Kept(st, {}, {})
  BY HereIs DEF Whole
<1>1. old # None /\ old.kind = "start" /\ old.dialog
  BY DEF Por!Share, Por!Shown
<1>2. /\ DOMAIN chosen = Parts /\ chosen.calls = cs /\ chosen.owed = v2
      /\ chosen.wrong = v3 /\ chosen.sessions = ss /\ chosen.frames = v5 /\ chosen.timers = v6
  <2> HIDE DEF ss, cs, st
  <2> QED BY DEF Por!Here, Parts
<1>3. Por!Set(Por!CloseSession(chosen, p)) \/ Por!Set(to)
  <2> DEFINE z == [Por!Here EXCEPT !.sessions[p].source = x, !.calls[h].dialog = FALSE]
  <2>1. Por!Set(Por!CloseSession(z, p)) \/ Por!Set([z EXCEPT !.timers = @ \cup {Por!Settle(p)}])
    BY DEF Por!Share, Por!Step
  <2>2. z = chosen
    BY <1>0
  <2>3. [chosen EXCEPT !.timers = @ \cup {Por!Settle(p)}] = to
    <3> HIDE DEF chosen
    <3> QED BY <1>2 DEF Parts
  <2> HIDE DEF z, chosen, to, p
  <2> QED BY <2>1, <2>2, <2>3
<1> HIDE DEF st
<1>i. Typed(st) /\ CallsKept(st) /\ SessionsKept(st) /\ FramesKept(st)
  BY <1>0 DEF Kept
<1>6. v1 \in [Handles -> {None} \cup CallRecords] /\ v4 \in [Paths -> {None} \cup SessionRecords]
  BY <1>0, <1>i DEF Typed
<1>4. CallKept(st, h) /\ old \in CallRecords /\ old.path \in Paths \cup {None}
  <2>1. old \in CallRecords
    BY <1>1, <1>6
  <2> QED BY <1>i, <2>1 DEF CallsKept, CallRecords
<1>5. /\ p \in Paths /\ was # None /\ was.stage = "starting" /\ was.request = h /\ was.source = None
      /\ was \in SessionRecords
  BY <1>0, <1>1, <1>4, <1>6 DEF CallKept
<1>7. c \in CallRecords /\ c.kind = "start" /\ c.path = p /\ ~c.dialog
  <2> DEFINE b == FALSE
  <2>1. b \in BOOLEAN /\ c = [old EXCEPT !.dialog = b]
    OBVIOUS
  <2> HIDE DEF b, old, c
  <2>2. c \in CallRecords /\ c.kind = old.kind /\ c.path = old.path /\ c.dialog = b
    BY <1>4, <2>1, CallDialogSet
  <2>3. ~c.dialog
    BY <2>2 DEF b
  <2> QED BY <1>1, <2>2, <2>3
<1>8. /\ s \in SessionRecords /\ s.source = x /\ s.stage = "starting" /\ s.capture = was.capture
      /\ s.request = was.request /\ s.stream = was.stream /\ s.again = was.again
  <2> HIDE DEF was
  <2>1. x \in Sources \cup {None}
    OBVIOUS
  <2> QED BY <1>5, <2>1, SourceSet
<1>o. /\ DOMAIN one = Parts /\ one.calls = cs /\ one.owed = v2 /\ one.wrong = v3
      /\ one.sessions = v4 /\ one.frames = v5 /\ one.timers = v6
  BY OfIs
<1>f. /\ ss = [v4 EXCEPT ![p] = s] /\ cs = [v1 EXCEPT ![h] = c] /\ was = v4[p] /\ old = v1[h]
      /\ h \in hs /\ p \in ps
  OBVIOUS
<1>t. /\ DOMAIN to = Parts /\ to.calls = cs /\ to.owed = v2 /\ to.wrong = v3 /\ to.sessions = ss
      /\ to.frames = v5 /\ to.timers = ts
  <2> HIDE DEF chosen, ss, ts, cs
  <2> QED BY <1>2 DEF Parts
<1> HIDE DEF s, ss, cs, one, chosen, to, hs, ps, was, p, c, old
<1>a. /\ \A q \in Paths : Por!Settle(q) \in ts => Por!Settle(q) \in v6 \/ q = p
      /\ \A g \in Handles : Por!Reply(g) \in ts => Por!Reply(g) \in v6
  BY TimerKinds
<1> HIDE DEF ts
<1>r. Right(was, p, v6) /\ x # None
  BY <1>0, <1>5, <1>f, <1>i, PortalNone DEF SessionsKept
<1>k. Right(s, p, v6) /\ (s.again \/ (s.source # None /\ s.capture = None /\ ~s.stream))
  BY <1>5, <1>8, <1>r DEF Right
<1>n. \A n \in {0, 1} : st.frames[<<p, n>>] # None => s.capture = <<p, n>> \/ st.frames[<<p, n>>].again
  <2> SUFFICES ASSUME NEW n \in {0, 1}, st.frames[<<p, n>>] # None
               PROVE  s.capture = <<p, n>> \/ st.frames[<<p, n>>].again
    OBVIOUS
  <2> DEFINE j == <<p, n>>
  <2>1. j \in FrameIds /\ j[1] = p /\ st.frames[j] # None
    BY <1>5 DEF FrameIds
  <2> HIDE DEF j
  <2>2. st.frames[j].again \/ (st.sessions[p].capture = j /\ j # None)
    BY <1>5, <1>i, <2>1, IdleFrames
  <2> QED BY <1>0, <1>8, <1>f, <2>2 DEF j
<1>v. Given(s, v5)
  <2>1. Given(was, v5)
    BY <1>0, <1>5, <1>f DEF Kept, Served
  <2> QED BY <1>8, <1>k, <2>1 DEF Given
<1>g. cs[h] = c /\ \A g \in Handles : g # h => cs[g] = v1[g]
  BY <1>6, <1>f
<1>d. \A g \in Handles : cs[g] # None /\ cs[g].path = p => ~cs[g].dialog
  <2> SUFFICES ASSUME NEW g \in Handles, g # h, v1[g] # None, v1[g].path = p PROVE ~v1[g].dialog
    BY <1>7, <1>g
  <2>1. CallKept(st, g) /\ p # None /\ v1[g] \in CallRecords
    BY <1>5, <1>6, <1>i, PortalNone DEF CallsKept
  <2> QED BY <1>0, <1>5, <1>f, <2>1 DEF CallKept
<1>9. Kept(one, {}, hs)
  <2>1. Kept(st, {}, hs)
    BY <1>0, KeptMore
  <2>2. /\ st.calls[h] # None /\ one.calls = [st.calls EXCEPT ![h] = c] /\ c.kind = st.calls[h].kind
        /\ c.path = st.calls[h].path /\ ~c.dialog
        /\ one.owed = st.owed /\ one.wrong = st.wrong /\ one.sessions = st.sessions
        /\ one.frames = st.frames /\ one.timers = st.timers
    BY <1>0, <1>1, <1>7, <1>o, <1>f DEF p
  <2> QED BY <1>7, <1>f, <1>o, <2>1, <2>2, CallChanged
<1>10. Kept(one, ps, {})
  <2>1. Kept(one, {None}, {h}) /\ None \notin Paths /\ one.calls[h] = c
    BY <1>9, <1>g, <1>o, KeptMore, PortalNone DEF hs
  <2>2. Kept(one, {}, {})
    BY <1>7, <2>1, KeptLess
  <2> QED BY <2>2, KeptMore
<1>11. Kept(chosen, ps, {})
  <2>1. /\ chosen.sessions = [one.sessions EXCEPT ![p] = s] /\ one.sessions[p] # None
        /\ s.stage = one.sessions[p].stage /\ s.request = one.sessions[p].request
        /\ chosen.calls = one.calls /\ chosen.owed = one.owed /\ chosen.wrong = one.wrong
        /\ chosen.frames = one.frames /\ chosen.timers = one.timers
        /\ Right(s, p, one.timers)
    BY <1>2, <1>5, <1>8, <1>f, <1>k, <1>o
  <2>2. \A n \in {0, 1} : one.frames[<<p, n>>] # None => s.capture = <<p, n>> \/ one.frames[<<p, n>>].again
    BY <1>0, <1>n, <1>o
  <2>3. \A g \in Handles : one.calls[g] # None /\ one.calls[g].path = p /\ one.calls[g].dialog => s.source = None
    BY <1>d, <1>o
  <2>4. DOMAIN chosen = Parts /\ p \in Paths /\ p \in ps /\ s \in SessionRecords
    BY <1>2, <1>5, <1>8, <1>f
  <2> QED BY ONLY PartnersAssumption, <1>10, <2>1, <2>2, <2>3, <2>4, SessionChanged
<1>12. chosen.sessions[p] = s /\ s # None /\ chosen.frames = v5
  BY <1>2, <1>5, <1>6, <1>8, <1>f, PortalNone
<1>13. Kept(chosen, {}, {})
  <2>1. Kept(chosen, {p}, {None}) /\ None \notin Handles /\ Given(chosen.sessions[p], chosen.frames)
    BY <1>11, <1>12, <1>v, KeptMore, PortalNone DEF ps
  <2> QED BY <2>1, KeptLess
<1>14. Kept(Por!CloseSession(chosen, p), {}, {})
  BY <1>5, <1>13, CloseSessionKeeps, KeptMore
<1>15. Kept(to, {}, {})
  <2>1. \/ chosen.sessions[p].again
        \/ chosen.sessions[p].source # None /\ chosen.sessions[p].capture = None /\ ~chosen.sessions[p].stream
    BY <1>12, <1>k
  <2>2. /\ to.calls = chosen.calls /\ to.owed = chosen.owed /\ to.wrong = chosen.wrong
        /\ to.sessions = chosen.sessions /\ to.frames = chosen.frames
        /\ \A q \in Paths : Por!Settle(q) \in to.timers => Por!Settle(q) \in chosen.timers \/ q = p
        /\ \A g \in Handles : Por!Reply(g) \in to.timers => Por!Reply(g) \in chosen.timers
    BY <1>2, <1>a, <1>t
  <2> QED BY <1>13, <1>t, <2>1, <2>2, TimersChanged
<1> QED BY <1>3, <1>14, <1>15, HereKept DEF Whole

\* A timer has fired, and others of its path may be left.
Thinned(st, x, left) == [st EXCEPT !.timers = (@ \ {x}) \cup left]

\* A picker has left the scene.
LEMMA SettleTimerKeeps ==
  ASSUME PartnersAssumption, Whole, NEW p \in Paths, Por!SettleTimer(p)
  PROVE  Whole'
<1> DEFINE old == Por!Here
<1>0. /\ DOMAIN old = Parts /\ old.sessions = v4 /\ old.timers = v6 /\ Kept(old, {}, {})
      /\ Por!Settle(p) \in v6
  BY HereIs DEF Whole, Por!SettleTimer
<1>1. PICK left \in Por!Further(p) :
        LET st == Thinned(old, Por!Settle(p), left)
        IN IF Por!Stage(st, p) # "starting" THEN Por!Set(st)
           ELSE Por!Set(Por!RequestFrame(st, p)) \/ Por!Set(Por!CloseSession(st, p))
  BY DEF Por!SettleTimer, Por!Step, Thinned
<1> DEFINE st == Thinned(old, Por!Settle(p), left)
<1>2. left \subseteq {Por!Settle(p)} /\ (v4[p] # None /\ ~v4[p].again => left = {})
  BY DEF Por!Further
<1>3. \/ Por!Stage(st, p) # "starting" /\ Por!Set(st)
      \/ Por!Stage(st, p) = "starting" /\ Por!Set(Por!RequestFrame(st, p))
      \/ Por!Set(Por!CloseSession(st, p))
  BY <1>1
<1> HIDE DEF old
<1>4. /\ DOMAIN st = Parts /\ st.calls = old.calls /\ st.owed = old.owed /\ st.wrong = old.wrong
      /\ st.sessions = old.sessions /\ st.frames = old.frames
      /\ st.timers = (old.timers \ {Por!Settle(p)}) \cup left
  BY <1>0 DEF Thinned, Parts
<1> HIDE DEF st
<1>5. \A x : x \in st.timers => x \in old.timers
  BY <1>0, <1>2, <1>4
<1>6. Kept(st, {}, {})
  BY <1>0, <1>4, <1>5, TimersChanged
<1>7. ASSUME Por!Stage(st, p) = "starting" PROVE Kept(Por!RequestFrame(st, p), {}, {})
  <2>1. st.sessions[p] # None /\ st.sessions[p].stage = "starting" /\ st.sessions[p] = v4[p]
    BY <1>0, <1>4, <1>7 DEF Por!Stage, PartnersAssumption
  <2>2. Right(v4[p], p, v6)
    BY <1>0, <2>1 DEF Kept, SessionsKept
  <2>3. \/ st.sessions[p].again
        \/ /\ st.sessions[p].source # None /\ st.sessions[p].capture = None
           /\ Por!Settle(p) \notin st.timers
    BY <1>0, <1>2, <1>4, <2>1, <2>2 DEF Right
  <2> QED BY <1>6, <2>1, <2>3, RequestFrameKeeps
<1>8. Kept(Por!CloseSession(st, p), {}, {})
  BY <1>6, CloseSessionKeeps, KeptMore
<1> QED BY <1>3, <1>6, <1>7, <1>8, HereKept DEF Whole

LEMMA LimitTimerKeeps ==
  ASSUME PartnersAssumption, Whole, NEW p \in Paths, Por!LimitTimer(p)
  PROVE  Whole'
<1> DEFINE st == Untimed(Por!Here, Por!Limit(p))
<1>1. Por!Set(IF Por!Stage(st, p) = "starting" THEN Por!CloseSession(st, p) ELSE st)
  BY DEF Por!LimitTimer, Por!Step, Untimed
<1>2. Kept(st, {}, {})
  BY UntimedKeeps DEF Whole
<1> HIDE DEF st
<1>3. Kept(Por!CloseSession(st, p), {}, {})
  BY <1>2, CloseSessionKeeps, KeptMore
<1>4. Por!Set(Por!CloseSession(st, p)) \/ Por!Set(st)
  BY <1>1
<1> QED BY <1>2, <1>3, <1>4, HereKept DEF Whole

\* streamReady(): the call that started the session is answered.
LEMMA StreamReadyKeeps ==
  ASSUME PartnersAssumption, Whole, NEW p \in Paths, Por!StreamReady(p)
  PROVE  Whole'
<1> DEFINE st == Por!Here
           old == v4[p]
           s == [old EXCEPT !.stage = "active"]
           ss == [v4 EXCEPT ![p] = s]
           b == [st EXCEPT !.sessions[p].stage = "active"]
           h == old.request
           hs == {h}
           to == Por!Answered(b, hs)
<1>0. /\ DOMAIN st = Parts /\ st.calls = v1 /\ st.owed = v2 /\ st.wrong = v3 /\ st.sessions = v4
      /\ st.frames = v5 /\ st.timers = v6 /\ Kept(st, {}, {})
  BY HereIs DEF Whole
<1>1. old # None /\ old.stream /\ old.stage = "starting" /\ Por!Set(Por!Complete(b, h))
  BY DEF Por!StreamReady, Por!Streams, Por!Step
<1>i. Typed(st) /\ CallsKept(st) /\ SessionsKept(st) /\ FramesKept(st)
  BY <1>0 DEF Kept
<1>2. /\ DOMAIN b = Parts /\ b.calls = v1 /\ b.owed = v2 /\ b.wrong = v3 /\ b.sessions = ss
      /\ b.frames = v5 /\ b.timers = v6
  BY <1>0 DEF Por!Here, Parts
<1> HIDE DEF st, b
<1>6. v1 \in [Handles -> {None} \cup CallRecords] /\ v4 \in [Paths -> {None} \cup SessionRecords]
  BY <1>0, <1>i DEF Typed
<1>3. /\ s \in SessionRecords /\ s.stage = "active" /\ s.source = old.source /\ s.capture = old.capture
      /\ s.stream = old.stream /\ s.again = old.again /\ h \in Handles \cup {None}
  <2>1. old \in SessionRecords
    BY <1>1, <1>6
  <2> HIDE DEF old
  <2> QED BY <2>1, StageSet, SessionFields
<1>4. h # None /\ v1[h] # None /\ v1[h].kind = "start" /\ v1[h].path = p
  BY <1>0, <1>1, <1>i DEF SessionsKept, Begins
<1> HIDE DEF to
<1>7. Por!Complete(b, h) = to \/ Por!Complete(b, h) = Por!CloseSession(to, p)
  BY <1>2, <1>4 DEF Por!Complete, to
<1>8. /\ DOMAIN to = Parts
      /\ to.calls = [g \in Handles |-> IF g \in hs THEN None ELSE b.calls[g]]
      /\ to.owed = b.owed \ hs
      /\ to.wrong = (b.wrong \/ ~(hs \subseteq b.owed))
      /\ to.timers = b.timers \ {Por!Reply(g) : g \in hs}
      /\ to.sessions = b.sessions /\ to.frames = b.frames
  BY <1>2, AnsweredIs DEF to
<1>9. /\ to.calls = [v1 EXCEPT ![h] = None] /\ to.owed = v2 \ {h} /\ to.wrong = FALSE
      /\ to.timers = v6 \ {Por!Reply(h)} /\ to.sessions = ss /\ to.frames = v5
  <2>1. to.calls = [v1 EXCEPT ![h] = None]
    BY <1>2, <1>3, <1>4, <1>6, <1>8
  <2>2. h \in v2 /\ ~v3
    BY <1>0, <1>3, <1>4, <1>i DEF CallsKept
  <2>3. to.wrong = FALSE
    BY <1>2, <1>8, <2>2
  <2>4. to.timers = v6 \ {Por!Reply(h)}
    BY <1>2, <1>8
  <2> QED BY <1>2, <1>8, <2>1, <2>3, <2>4
<1>f. ss = [v4 EXCEPT ![p] = s] /\ old = v4[p] /\ h = old.request
  OBVIOUS
<1> HIDE DEF s, ss, hs, h, old
<1>10. /\ st.sessions[p] # None /\ st.sessions[p].stage = "starting"
       /\ st.sessions[p].request = h /\ st.sessions[p].stream
       /\ s.source = st.sessions[p].source
       /\ s.capture = st.sessions[p].capture /\ s.stream /\ s.again = st.sessions[p].again
       /\ to.sessions = [st.sessions EXCEPT ![p] = s] /\ to.calls = [st.calls EXCEPT ![h] = None]
       /\ to.owed = st.owed \ {h} /\ to.frames = st.frames
       /\ to.timers = st.timers \ {Por!Reply(h)} /\ h \in Handles
  BY <1>0, <1>1, <1>3, <1>4, <1>9, <1>f
<1>11. Kept(to, {}, {})
  <2>1. /\ DOMAIN to = Parts /\ to.wrong = FALSE /\ s \in SessionRecords /\ s.stage = "active" /\ Kept(st, {}, {})
    BY <1>0, <1>3, <1>8, <1>9
  <2> QED BY ONLY PartnersAssumption, p \in Paths, <1>10, <2>1, SessionRuns
<1>12. Kept(Por!CloseSession(to, p), {}, {})
  BY <1>11, CloseSessionKeeps, KeptMore
<1> QED BY <1>1, <1>7, <1>11, <1>12, HereKept DEF Whole

\* frameNeeded, of the first frame and of those that follow.
LEMMA FrameNeededKeeps ==
  ASSUME PartnersAssumption, Whole, NEW p \in Paths, Por!FrameNeeded(p)
  PROVE  Whole'
<1> DEFINE st == Por!Here
<1>1. Kept(st, {}, {}) /\ st.sessions[p] # None
  BY HereIs DEF Whole, Por!FrameNeeded, Por!Streams
<1>2. \/ \E failed \in BOOLEAN : Por!Set(Begun(st, p, failed))
      \/ Por!Set(Por!MaybeCapture(st, p))
  BY DEF Por!FrameNeeded, Por!Step, Begun
<1> HIDE DEF st
<1>3. \A failed \in BOOLEAN : Kept(Begun(st, p, failed), {}, {})
  BY <1>1, BegunKeeps
<1>4. Kept(Por!MaybeCapture(st, p), {}, {})
  BY <1>1, MaybeCaptureKeeps
<1> QED BY <1>2, <1>3, <1>4, HereKept DEF Whole

\* The stream fails, and the session is closed.
LEMMA CastCloses ==
  ASSUME PartnersAssumption, Whole, NEW p \in Paths, Por!StreamFailed(p) \/ Por!CloseCast(p)
  PROVE  Whole'
<1>1. Por!Set(Por!CloseSession(Por!Here, p))
  BY DEF Por!StreamFailed, Por!CloseCast, Por!Step
<1> DEFINE st == Por!Here
<1>2. Kept(st, {}, {})
  BY DEF Whole
<1> HIDE DEF st
<1>3. Kept(Por!CloseSession(st, p), {}, {})
  BY <1>2, CloseSessionKeeps, KeptMore
<1> QED BY <1>1, <1>3, HereKept DEF Whole, st

\* A screenshot or a plain dialog begins.
Plain == {"shot", "access", "file"}

LEMMA AddedKeeps ==
  ASSUME PartnersAssumption, Whole, NEW h \in Handles, v1[h] = None,
         NEW kind \in Plain, NEW stage \in Stages, NEW d \in BOOLEAN
  PROVE  /\ Kept(Por!Added(h, kind, None, stage, d), {}, {h})
         /\ Por!Added(h, kind, None, stage, d).calls[h] # None
         /\ Por!Added(h, kind, None, stage, d).calls[h].kind = kind
         /\ Por!Added(h, kind, None, stage, d).calls[h].dialog = d
<1> DEFINE to == Por!Added(h, kind, None, stage, d)
           c == [kind |-> kind, path |-> None, stage |-> stage, dialog |-> d]
           cs == [v1 EXCEPT ![h] = c]
           st == Por!Here
           hs == {h}
<1>0. /\ DOMAIN st = Parts /\ st.calls = v1 /\ st.owed = v2 /\ st.wrong = v3 /\ st.sessions = v4
      /\ st.frames = v5 /\ st.timers = v6 /\ Kept(st, {}, {})
  BY HereIs DEF Whole
<1>1. /\ DOMAIN to = Parts /\ to.calls = cs /\ to.owed = v2 \cup {h}
      /\ to.wrong = v3 /\ to.sessions = v4 /\ to.frames = v5 /\ to.timers = v6
  BY DEF Por!Added, Por!Here, Parts
<1>2. c \in CallRecords /\ c.kind = kind /\ c.path = None /\ c.dialog = d
  BY DEF CallRecords, Stages, Plain
<1>3. h \in hs /\ cs = [v1 EXCEPT ![h] = c]
  OBVIOUS
<1> HIDE DEF to, c, cs, st, hs
<1>4. cs[h] = c /\ c # None
  BY <1>0, <1>2, <1>3, PortalNone DEF Kept, Typed
<1>5. Kept(st, {}, hs)
  BY <1>0, KeptMore
<1>6. /\ st.calls[h] = None /\ to.calls = [st.calls EXCEPT ![h] = c]
      /\ c.kind \in {"shot", "access", "file"} /\ c.path = None
      /\ to.owed = st.owed \cup {h} /\ to.wrong = st.wrong /\ to.sessions = st.sessions
      /\ to.frames = st.frames /\ to.timers = st.timers
  BY <1>0, <1>1, <1>2, <1>3 DEF Plain
<1>7. Kept(to, {}, hs)
  BY <1>1, <1>2, <1>3, <1>5, <1>6, CallAdded
<1> QED BY <1>1, <1>2, <1>4, <1>7 DEF to, hs

\* A dialog waits for no frame.
LEMMA ShownKeeps ==
  ASSUME PartnersAssumption, NEW st, NEW h \in Handles, Kept(st, {}, {h}),
         st.calls[h].dialog \/ st.calls[h].kind # "shot"
  PROVE  Kept(st, {}, {})
<1>1. Kept(st, {None}, {h}) /\ None \notin Paths
  BY KeptMore, PortalNone
<1> QED BY <1>1, KeptLess

LEMMA AddedShown ==
  ASSUME PartnersAssumption, Whole, NEW h \in Handles, v1[h] = None,
         NEW kind \in Plain, NEW stage \in Stages
  PROVE  Kept(Por!Added(h, kind, None, stage, TRUE), {}, {})
<1> DEFINE d == TRUE
           to == Por!Added(h, kind, None, stage, d)
<1>1. d \in BOOLEAN
  OBVIOUS
<1> HIDE DEF d
<1>2. Kept(to, {}, {h}) /\ to.calls[h].dialog = d
  BY <1>1, AddedKeeps
<1> HIDE DEF to
<1>3. to.calls[h].dialog
  BY <1>2 DEF d
<1>4. Kept(to, {}, {})
  BY <1>2, <1>3, ShownKeeps
<1> QED BY <1>4 DEF to, d

LEMMA ShotEnds ==
  ASSUME PartnersAssumption, Whole, NEW h \in Handles, v1[h] # None, v1[h].kind = "shot"
  PROVE  Kept(Por!ShotDone(Por!Here, h), {}, {})
<1> DEFINE cs == {h}
           st == Por!Here
<1>1. cs \in SUBSET Handles /\ \A g \in cs : v1[g] # None /\ v1[g].kind = "shot"
  OBVIOUS
<1>2. Por!ShotDone(st, h) = Por!ShotsDone(st, cs)
  BY DEF Por!ShotDone
<1>3. Kept(st, {}, {}) /\ st.calls = v1
  BY HereIs DEF Whole
<1> HIDE DEF cs, st
<1>4. Kept(Por!ShotsDone(st, cs), {}, {} \ cs)
  BY <1>1, <1>3, ShotsDoneKeeps
<1>5. {} \ cs \subseteq {}
  OBVIOUS
<1> QED BY <1>2, <1>4, <1>5, KeptMore DEF st

LEMMA ShotAsks ==
  ASSUME PartnersAssumption, Whole, NEW h \in Handles, v1[h] # None, v1[h].kind = "shot",
         NEW stage \in Stages, NEW x \in Sources
  PROVE  Kept(Por!ShotFrame(Por!Here, h, stage, x), {}, {})
<1> DEFINE st == Por!Here
<1>1. Kept(st, {}, {}) /\ st.calls = v1
  BY HereIs DEF Whole
<1> HIDE DEF st
<1>2. Kept(st, {}, {h})
  BY <1>1, KeptMore
<1> QED BY <1>1, <1>2, ShotFrameKeeps DEF st

LEMMA BeginShotKeeps ==
  ASSUME PartnersAssumption, Whole, NEW h \in Handles, Por!BeginShot(h)
  PROVE  Whole'
<1>1. v1[h] = None
  BY DEF Por!BeginShot
<1>2. "chooser" \in Stages /\ "quick" \in Stages /\ "shot" \in Plain
  BY DEF Stages, Plain
<1>3. CASE Por!Set(Por!Added(h, "shot", None, "chooser", TRUE))
  <2>1. Kept(Por!Added(h, "shot", None, "chooser", TRUE), {}, {})
    BY <1>1, <1>2, AddedShown
  <2> QED BY <1>3, <2>1, HereKept DEF Whole
<1>4. ASSUME NEW x \in Screens,
             Por!Set(Por!ShotFrame(Por!Added(h, "shot", None, "quick", FALSE), h, "quick", x))
      PROVE  Whole'
  <2> DEFINE d == FALSE
             st == Por!Added(h, "shot", None, "quick", d)
  <2>1. d \in BOOLEAN /\ x \in Sources
    BY DEF Sources
  <2>2. Por!Set(Por!ShotFrame(st, h, "quick", x))
    BY <1>4
  <2> HIDE DEF d
  <2>3. Kept(st, {}, {h}) /\ st.calls[h] # None /\ st.calls[h].kind = "shot"
    BY <1>1, <1>2, <2>1, AddedKeeps
  <2> HIDE DEF st
  <2>4. Kept(Por!ShotFrame(st, h, "quick", x), {}, {})
    BY <1>2, <2>1, <2>3, ShotFrameKeeps
  <2> QED BY <2>2, <2>4, HereKept DEF Whole
<1>5. \/ Por!Set(Por!Added(h, "shot", None, "chooser", TRUE))
      \/ \E x \in Screens : Por!Set(Por!ShotFrame(Por!Added(h, "shot", None, "quick", FALSE), h, "quick", x))
  BY DEF Por!BeginShot, Por!Step
<1> QED BY <1>3, <1>4, <1>5

\* The user's answers, and the dialogs that follow.
LEMMA ShotStepKeeps ==
  ASSUME PartnersAssumption, Whole, NEW h \in Handles,
         Por!ChooseShot(h) \/ Por!SelectRegion(h) \/ Por!ConfirmShot(h) \/ Por!SaveShot(h)
  PROVE  Whole'
<1>1. v1[h] # None /\ v1[h].kind = "shot"
  BY DEF Por!ChooseShot, Por!SelectRegion, Por!ConfirmShot, Por!SaveShot, Por!At, Por!Shown
<1>2. \A stage \in {"capture", "preview"} : stage \in Stages
  BY DEF Stages
<1>3. ASSUME NEW x \in Sources, NEW stage \in {"capture", "preview"}, Por!Set(Por!ShotFrame(Por!Here, h, stage, x))
      PROVE  Whole'
  <2>1. Kept(Por!ShotFrame(Por!Here, h, stage, x), {}, {})
    BY <1>1, <1>2, ShotAsks
  <2> QED BY <1>3, <2>1, HereKept DEF Whole
<1>4. CASE Por!ChooseShot(h)
  <2>1. \E x \in Sources, stage \in {"capture", "preview"} : Por!Set(Por!ShotFrame(Por!Here, h, stage, x))
    BY <1>4 DEF Por!ChooseShot, Por!Step, Sources
  <2> QED BY <1>3, <2>1
<1>5. CASE Por!SelectRegion(h)
  <2>1. \E x \in Sources : Por!Set(Por!ShotFrame(Por!Here, h, "capture", x))
    BY <1>5 DEF Por!SelectRegion, Por!Step, Sources
  <2> QED BY <1>3, <2>1
<1>6. CASE Por!ConfirmShot(h)
  <2> DEFINE st == Por!Here
             d == TRUE
             to == Staged(st, h, "saving", d)
  <2>1. Por!Set(to)
    BY <1>6 DEF Por!ConfirmShot, Por!Step, Por!Dialog, Staged
  <2>2. "saving" \in Stages /\ d \in BOOLEAN
    BY DEF Stages
  <2>3. Kept(st, {}, {}) /\ st.calls = v1
    BY HereIs DEF Whole
  <2> HIDE DEF st, d
  <2>4. Kept(st, {}, {h})
    BY <2>3, KeptMore
  <2>5. Kept(to, {}, {h}) /\ to.calls[h].dialog = d
    BY <1>1, <2>2, <2>3, <2>4, StagedKeeps
  <2> HIDE DEF to
  <2>6. to.calls[h].dialog
    BY <2>5 DEF d
  <2>7. Kept(to, {}, {})
    BY <2>5, <2>6, ShownKeeps
  <2> QED BY <2>1, <2>7, HereKept DEF Whole
<1>7. CASE Por!SaveShot(h)
  <2>1. Por!Set(Por!ShotDone(Por!Here, h))
    BY <1>7 DEF Por!SaveShot, Por!Step
  <2> QED BY <1>1, <2>1, ShotEnds, HereKept DEF Whole
<1> QED BY <1>4, <1>5, <1>6, <1>7

\* Plain dialogs are shown and answered.
LEMMA DialogKeeps ==
  ASSUME PartnersAssumption, Whole, NEW h \in Handles,
         Por!ShowAccess(h) \/ Por!ShowFileChooser(h) \/ Por!AccessAnswered(h) \/ Por!FileAnswered(h)
  PROVE  Whole'
<1>1. None \in Stages /\ "access" \in Plain /\ "file" \in Plain
  BY DEF Stages, Plain
<1>2. ASSUME NEW kind \in Plain, v1[h] = None, Por!Set(Por!Added(h, kind, None, None, TRUE))
      PROVE  Whole'
  <2>1. Kept(Por!Added(h, kind, None, None, TRUE), {}, {})
    BY <1>1, <1>2, AddedShown
  <2> QED BY <1>2, <2>1, HereKept DEF Whole
<1>3. CASE Por!ShowAccess(h)
  <2>1. v1[h] = None /\ Por!Set(Por!Added(h, "access", None, None, TRUE))
    BY <1>3 DEF Por!ShowAccess, Por!Step
  <2> QED BY <1>1, <1>2, <2>1
<1>4. CASE Por!ShowFileChooser(h)
  <2>1. v1[h] = None /\ Por!Set(Por!Added(h, "file", None, None, TRUE))
    BY <1>4 DEF Por!ShowFileChooser, Por!Step
  <2> QED BY <1>1, <1>2, <2>1
<1>5. CASE Por!AccessAnswered(h) \/ Por!FileAnswered(h)
  <2> DEFINE st == Por!Here
  <2>1. v1[h].kind \in {"access", "file"} /\ Por!Set(Por!Complete(st, h))
    BY <1>5 DEF Por!AccessAnswered, Por!FileAnswered, Por!Shown, Por!Step
  <2>2. Kept(st, {}, {}) /\ st.calls = v1
    BY HereIs DEF Whole
  <2> HIDE DEF st
  <2>3. Kept(Por!Complete(st, h), {}, {})
    BY <2>1, <2>2, CompleteKeeps
  <2> QED BY <2>1, <2>3, HereKept DEF Whole
<1> QED BY <1>3, <1>4, <1>5

\* rejected: the session ends that the user gave no source, or the screenshot.
LEMMA RejectDialogKeeps ==
  ASSUME PartnersAssumption, Whole, NEW h \in Handles, Por!RejectDialog(h)
  PROVE  Whole'
<1>1. CASE v1[h] # None /\ v1[h].kind = "shot" /\ Por!Set(Por!ShotDone(Por!Here, h))
  BY <1>1, ShotEnds, HereKept DEF Whole
<1>2. CASE /\ v1[h] # None /\ v1[h].kind = "start"
           /\ Por!Set(Por!CloseSession([Por!Here EXCEPT !.calls[h].dialog = FALSE], v1[h].path))
  <2> DEFINE st == Por!Here
             old == v1[h]
             d == FALSE
             c == [old EXCEPT !.dialog = d]
             cs == [v1 EXCEPT ![h] = c]
             to == [st EXCEPT !.calls[h].dialog = d]
             p == old.path
             hs == {h}
  <2>0. /\ DOMAIN st = Parts /\ st.calls = v1 /\ st.owed = v2 /\ st.wrong = v3 /\ st.sessions = v4
        /\ st.frames = v5 /\ st.timers = v6 /\ Kept(st, {}, {})
    BY HereIs DEF Whole
  <2>1. Por!Set(Por!CloseSession(to, p)) /\ d \in BOOLEAN /\ ~d
    BY <1>2
  <2> HIDE DEF d
  <2>2. /\ DOMAIN to = Parts /\ to.calls = cs /\ to.owed = v2 /\ to.wrong = v3 /\ to.sessions = v4
        /\ to.frames = v5 /\ to.timers = v6
    BY DEF Por!Here, Parts
  <2>f. cs = [v1 EXCEPT ![h] = c] /\ h \in hs
    OBVIOUS
  <2> HIDE DEF to, st
  <2>3. v1 \in [Handles -> {None} \cup CallRecords] /\ CallKept(st, h)
    BY <2>0 DEF Kept, Typed, CallsKept
  <2>4. old \in CallRecords
    BY <1>2, <2>3
  <2>5. p \in Paths
    BY <1>2, <2>0, <2>3, <2>4 DEF CallKept, CallRecords
  <2>6. c \in CallRecords /\ c.kind = "start" /\ c.path = p /\ c.dialog = d
    <3>1. old.kind = "start"
      BY <1>2
    <3> HIDE DEF old
    <3> QED BY <2>1, <2>4, <3>1, CallDialogSet
  <2>7. Kept(st, {}, hs)
    BY <2>0, KeptMore
  <2>8. /\ st.calls[h] # None /\ to.calls = [st.calls EXCEPT ![h] = c] /\ c.kind = st.calls[h].kind
        /\ c.path = st.calls[h].path /\ ~c.dialog
        /\ to.owed = st.owed /\ to.wrong = st.wrong /\ to.sessions = st.sessions
        /\ to.frames = st.frames /\ to.timers = st.timers
    BY <1>2, <2>0, <2>1, <2>2, <2>6
  <2>9. cs[h] = c
    BY <2>3
  <2> HIDE DEF c, cs, hs, p
  <2>10. Kept(to, {}, hs)
    BY <2>2, <2>6, <2>7, <2>8, <2>f, CallChanged
  <2>11. Kept(to, {}, {h}) /\ to.calls[h].kind # "shot"
    BY <2>2, <2>6, <2>9, <2>10 DEF hs
  <2>12. Kept(to, {}, {})
    BY <2>11, ShownKeeps
  <2>13. Kept(Por!CloseSession(to, p), {}, {})
    BY <2>5, <2>12, CloseSessionKeeps, KeptMore
  <2> QED BY <2>1, <2>13, HereKept DEF Whole
<1> QED BY <1>1, <1>2 DEF Por!RejectDialog, Por!Shown, Por!Step

\* closeRequested: a session that was asked for ends with the call.
LEMMA CloseCallKeeps ==
  ASSUME PartnersAssumption, Whole, NEW h \in Handles, Por!CloseCall(h)
  PROVE  Whole'
<1> DEFINE st == Por!Here
<1>0. /\ DOMAIN st = Parts /\ st.calls = v1 /\ st.owed = v2 /\ st.wrong = v3 /\ st.sessions = v4
      /\ st.frames = v5 /\ st.timers = v6 /\ Kept(st, {}, {})
  BY HereIs DEF Whole
<1>1. /\ v1[h] # None
      /\ \/ v1[h].kind = "shot" /\ Por!Set(Por!ShotDone(st, h))
         \/ v1[h].kind \in {"access", "file"} /\ Por!Set(Por!Complete(st, h))
         \/ /\ v1[h].kind \notin {"shot", "access", "file"}
            /\ Por!Set(Por!Complete(Por!CloseSession(st, v1[h].path), h))
  BY DEF Por!CloseCall, Por!Step
<1>2. CASE v1[h].kind = "shot" /\ Por!Set(Por!ShotDone(st, h))
  BY <1>1, <1>2, ShotEnds, HereKept DEF Whole
<1> HIDE DEF st
<1>3. CASE v1[h].kind \in {"access", "file"} /\ Por!Set(Por!Complete(st, h))
  <2>1. Kept(Por!Complete(st, h), {}, {})
    BY <1>0, <1>3, CompleteKeeps
  <2> QED BY <1>3, <2>1, HereKept DEF Whole
<1>4. CASE /\ v1[h].kind \notin {"shot", "access", "file"}
           /\ Por!Set(Por!Complete(Por!CloseSession(st, v1[h].path), h))
  <2> DEFINE p == v1[h].path
             ps == {p}
             to == Por!CloseSession(st, p)
  <2>1. v1[h] \in CallRecords /\ CallKept(st, h)
    BY <1>0, <1>1 DEF Kept, Typed, CallsKept
  <2>2. p \in Paths /\ v4[p] # None
    BY <1>0, <1>1, <1>4, <2>1 DEF CallKept, CallRecords
  <2>3. to = Por!CloseSessions(st, ps)
    BY <1>0, <2>2 DEF Por!CloseSession
  <2>4. h \in Por!CallsOf(st, ps)
    BY <1>0, <1>1 DEF Por!CallsOf
  <2> HIDE DEF p, ps, to
  <2>5. Por!CloseSessions(st, ps).calls =
          [g \in Handles |-> IF g \in Por!CallsOf(st, ps) THEN None ELSE st.calls[g]]
    <3> DEFINE cs == Por!CallsOf(st, ps)
               z == Por!CloseSessions(st, ps)
    <3>1. /\ DOMAIN z = Parts
          /\ z.calls = [g \in Handles |-> IF g \in cs THEN None ELSE st.calls[g]]
          /\ z.owed = st.owed \ cs
          /\ z.wrong = (st.wrong \/ ~(cs \subseteq st.owed))
          /\ z.timers = st.timers \ {Por!Reply(g) : g \in cs}
          /\ z.sessions = [q \in Paths |-> IF q \in ps THEN None ELSE st.sessions[q]]
          /\ z.frames = [k \in FrameIds |-> IF k \in Por!CapturesOf(st, ps) THEN None ELSE st.frames[k]]
      BY <1>0, ClosedSessionsIs
    <3> QED BY <3>1
  <2>6. to.calls[h] = None
    BY <2>3, <2>4, <2>5
  <2>7. Kept(to, {}, {})
    BY <1>0, <2>2, CloseSessionKeeps, KeptMore DEF to
  <2>8. Kept(Por!Complete(to, h), {}, {})
    BY <2>6, <2>7, CompleteKeeps
  <2> QED BY <1>4, <2>8, HereKept DEF Whole, to, p
<1> QED BY <1>1, <1>2, <1>3, <1>4

\* buffer: the copy of a frame is asked for.
LEMMA CopyingKeeps ==
  ASSUME PartnersAssumption, Whole, NEW k \in FrameIds, v5[k] # None
  PROVE  Kept([Por!Here EXCEPT !.frames[k].copying = TRUE], {}, {})
<1> DEFINE st == Por!Here
           old == v5[k]
           r == [old EXCEPT !.copying = TRUE]
           fs == [v5 EXCEPT ![k] = r]
           to == [st EXCEPT !.frames[k].copying = TRUE]
<1>0. /\ DOMAIN st = Parts /\ st.calls = v1 /\ st.owed = v2 /\ st.wrong = v3 /\ st.sessions = v4
      /\ st.frames = v5 /\ st.timers = v6 /\ Kept(st, {}, {})
  BY HereIs DEF Whole
<1>1. /\ DOMAIN to = Parts /\ to.calls = v1 /\ to.owed = v2 /\ to.wrong = v3 /\ to.sessions = v4
      /\ to.frames = fs /\ to.timers = v6
  BY DEF Por!Here, Parts
<1> HIDE DEF to, st
<1>i. Typed(st) /\ FramesKept(st) /\ Served(st, {}, {}) /\ SessionsKept(st)
  BY <1>0 DEF Kept
<1>2. old \in FrameRecords
  BY <1>0, <1>i DEF Typed
<1>3. r \in FrameRecords /\ r.target = old.target /\ r.again = old.again
  <2> HIDE DEF old
  <2> QED BY <1>2 DEF FrameRecords
<1>4. Due(st, k)
  BY <1>0, <1>i DEF FramesKept
<1>5. \/ k[1] \in Paths /\ r.again
      \/ k[1] \in Paths /\ st.sessions[k[1]] # None /\ st.sessions[k[1]].capture = k
      \/ k[1] \in Handles /\ k[2] = 0 /\ st.calls[k[1]] # None /\ st.calls[k[1]].kind = "shot"
  BY <1>0, <1>3, <1>4 DEF Due
<1>6. /\ to.frames = [st.frames EXCEPT ![k] = r]
      /\ k[1] \in Paths /\ st.sessions[k[1]] # None /\ st.sessions[k[1]].capture = k =>
           IF st.sessions[k[1]].again THEN r.again ELSE r.target = st.sessions[k[1]].source
  <2>1. k # None
    BY PortalNone
  <2>2. k[1] \in Paths /\ st.sessions[k[1]] # None /\ st.sessions[k[1]].capture = k =>
          IF st.sessions[k[1]].again THEN old.again ELSE old.target = st.sessions[k[1]].source
    BY <1>0, <1>i, <2>1 DEF Served, Given
  <2>3. to.frames = [st.frames EXCEPT ![k] = r]
    BY <1>0, <1>1
  <2> HIDE DEF r, old
  <2> QED BY <1>3, <2>2, <2>3
<1>7. /\ to.calls = st.calls /\ to.owed = st.owed /\ to.wrong = st.wrong /\ to.sessions = st.sessions
      /\ to.timers = st.timers
  BY <1>0, <1>1
<1> HIDE DEF r, fs, old
<1>8. Kept(to, {}, {})
  BY <1>0, <1>1, <1>3, <1>5, <1>6, <1>7, FrameChanged
<1> QED BY <1>8 DEF to, st

\* What the compositor says of a frame.
LEMMA FrameStepKeeps ==
  ASSUME PartnersAssumption, Whole, NEW k \in FrameIds,
         Por!FrameBuffer(k) \/ Por!FrameReady(k) \/ Por!FrameFailed(k)
  PROVE  Whole'
<1> DEFINE st == Por!Here
<1>1. Kept(st, {}, {})
  BY DEF Whole
<1>2. v5[k] # None
  BY DEF Por!FrameBuffer, Por!FrameReady, Por!FrameFailed
<1>3. \/ Por!Set([st EXCEPT !.frames[k].copying = TRUE])
      \/ \E ks \in SUBSET FrameIds : Por!Set(Por!Failed(st, ks))
      \/ \E same, starts \in BOOLEAN : Por!Set(Por!Captured(st, k, same, starts))
  BY DEF Por!FrameBuffer, Por!FrameReady, Por!FrameFailed, Por!Step
<1>4. CASE Por!Set([st EXCEPT !.frames[k].copying = TRUE])
  BY <1>2, <1>4, CopyingKeeps, HereKept DEF Whole
<1> HIDE DEF st
<1>5. ASSUME NEW ks \in SUBSET FrameIds, Por!Set(Por!Failed(st, ks))
      PROVE  Whole'
  <2>1. Kept(Por!Failed(st, ks), {}, {})
    BY <1>1, FailedKeeps
  <2> QED BY <1>5, <2>1, HereKept DEF Whole
<1>6. ASSUME NEW same \in BOOLEAN, NEW starts \in BOOLEAN, Por!Set(Por!Captured(st, k, same, starts))
      PROVE  Whole'
  <2>1. Kept(Por!Captured(st, k, same, starts), {}, {})
    BY <1>1, CapturedKeeps
  <2> QED BY <1>6, <2>1, HereKept DEF Whole
<1> QED BY <1>3, <1>4, <1>5, <1>6

LEMMA EmptyKept ==
  ASSUME PartnersAssumption, NEW st, DOMAIN st = Parts, st.calls = [h \in Handles |-> None], st.owed = {}, st.wrong = FALSE,
         st.sessions = [p \in Paths |-> None], st.frames = [k \in FrameIds |-> None], st.timers = {}
  PROVE  Kept(st, {}, {})
BY DEF Kept, Typed, CallsKept, CallKept, SessionsKept, FramesKept, Served

\* Several sessions that wait for nothing ask for a frame at once.
LEMMA ManyAsk ==
  ASSUME PartnersAssumption, NEW st, NEW to, Kept(st, {}, {}), Typed(to),
         to.calls = st.calls, to.owed = st.owed, to.wrong = st.wrong, to.timers = st.timers,
         \A p \in Paths : to.sessions[p] # None <=> st.sessions[p] # None,
         \A p \in Paths : st.sessions[p] # None =>
           /\ to.sessions[p].stage = st.sessions[p].stage /\ to.sessions[p].source = st.sessions[p].source
           /\ to.sessions[p].request = st.sessions[p].request /\ to.sessions[p].again = st.sessions[p].again
           /\ to.sessions[p].stream <=> st.sessions[p].stream,
         \A p \in Paths : st.sessions[p] # None /\ to.sessions[p].capture # st.sessions[p].capture =>
           /\ st.sessions[p].capture = None /\ st.sessions[p].stage = "active"
           /\ st.sessions[p].again \/ Por!Settle(p) \notin st.timers
           /\ to.sessions[p].capture[1] = p /\ Given(to.sessions[p], to.frames),
         \A k \in FrameIds : to.frames[k] # st.frames[k] =>
           /\ k[1] \in Paths /\ st.sessions[k[1]] # None /\ st.sessions[k[1]].capture = None
           /\ to.sessions[k[1]].capture = k
  PROVE  Kept(to, {}, {})
<1>i. Typed(st) /\ CallsKept(st) /\ SessionsKept(st) /\ FramesKept(st) /\ Served(st, {}, {})
  BY DEF Kept
<1>n. None \notin FrameIds /\ Paths \cap Handles = {}
  BY PortalNone
<1>1. CallsKept(to)
  <2>1. ASSUME NEW h \in Handles PROVE CallKept(to, h)
    <3>1. CallKept(st, h)
      BY <1>i DEF CallsKept
    <3>2. st.calls[h] # None => st.calls[h].path \in Paths \cup {None}
      BY <1>i DEF Typed, CallRecords
    <3> QED BY <3>1, <3>2 DEF CallKept
  <2> QED BY <1>i, <2>1 DEF CallsKept
<1>2. SessionsKept(to)
  <2> SUFFICES ASSUME NEW q \in Paths, to.sessions[q] # None
               PROVE  Right(to.sessions[q], q, to.timers) /\ Begins(to, q)
    BY DEF SessionsKept
  <2>1. Right(st.sessions[q], q, st.timers) /\ Begins(st, q) /\ st.sessions[q] # None
    BY <1>i DEF SessionsKept
  <2>2. Begins(to, q)
    BY <2>1 DEF Begins
  <2>3. CASE to.sessions[q].capture = st.sessions[q].capture
    BY <2>1, <2>2, <2>3 DEF Right
  <2>4. CASE to.sessions[q].capture # st.sessions[q].capture
    BY <2>1, <2>2, <2>4 DEF Right
  <2> QED BY <2>3, <2>4
<1>3. FramesKept(to)
  <2> SUFFICES ASSUME NEW k \in FrameIds, to.frames[k] # None
               PROVE  Due(to, k)
    BY DEF FramesKept
  <2>1. CASE to.frames[k] # st.frames[k]
    BY <2>1 DEF Due
  <2>2. CASE to.frames[k] = st.frames[k]
    <3>1. Due(st, k) /\ k # None
      BY <1>i, <1>n, <2>2 DEF FramesKept
    <3> QED BY <1>n, <2>2, <3>1 DEF Due
  <2> QED BY <2>1, <2>2
<1>4. Served(to, {}, {})
  <2>1. ASSUME NEW p \in Paths, to.sessions[p] # None
        PROVE  Given(to.sessions[p], to.frames)
    <3>1. CASE to.sessions[p].capture # st.sessions[p].capture
      BY <2>1, <3>1
    <3>2. CASE to.sessions[p].capture = st.sessions[p].capture /\ st.sessions[p].capture # None
      <4> DEFINE k == st.sessions[p].capture
      <4>1. k \in FrameIds /\ k # None /\ k[1] = p /\ st.sessions[p] # None
        BY SMTT(30), <1>i, <2>1, <3>2 DEF Typed, SessionRecords, FrameIds, SessionsKept, Right
      <4>2. Given(st.sessions[p], st.frames)
        BY <1>i, <4>1 DEF Served
      <4>3. to.frames[k] = st.frames[k]
        BY <4>1
      <4>4. /\ to.sessions[p].again = st.sessions[p].again
            /\ to.sessions[p].source = st.sessions[p].source
        BY <4>1
      <4> QED BY <3>2, <4>2, <4>3, <4>4 DEF Given
    <3>3. CASE to.sessions[p].capture = None
      BY <3>3 DEF Given
    <3> QED BY <3>1, <3>2, <3>3
  <2>2. \A h \in Handles : <<h, 0>> \in FrameIds /\ to.frames[<<h, 0>>] = st.frames[<<h, 0>>]
    <3>1. ASSUME NEW h \in Handles
          PROVE  to.frames[<<h, 0>>] = st.frames[<<h, 0>>]
      <4> DEFINE k == <<h, 0>>
      <4>1. k \in FrameIds /\ k[1] = h
        BY ShotIds
      <4> HIDE DEF k
      <4>2. to.frames[k] = st.frames[k]
        BY <1>n, <4>1
      <4> QED BY <4>2 DEF k
    <3> QED BY <3>1, ShotIds
  <2> QED BY <1>i, <2>1, <2>2 DEF Served
<1> QED BY <1>1, <1>2, <1>3, <1>4 DEF Kept

\* presented: the active sessions without a frame ask for one, or end.
LEMMA PresentedKeeps ==
  ASSUME PartnersAssumption, Whole, NEW ps \in SUBSET Paths, Por!Presented(ps)
  PROVE  Whole'
<1> DEFINE Number(p) == IF v5[<<p, 0>>] = None THEN 0 ELSE 1
           Target(p) == Por!Asked(v4[p])
           waiting == {p \in ps : v4[p].capture = None}
           ending == {p \in waiting : ~Por!Live(Target(p))}
           served == waiting \ ending
           S2 == [p \in Paths |-> IF p \in served
                    THEN [v4[p] EXCEPT !.capture = <<p, Number(p)>>] ELSE v4[p]]
           F2 == [k \in FrameIds |-> IF k[1] \in served /\ k[2] = Number(k[1])
                    THEN [target |-> Target(k[1]), copying |-> FALSE, again |-> v4[k[1]].again] ELSE v5[k]]
           to == [Por!Here EXCEPT !.sessions = S2, !.frames = F2]
           st == Por!Here
<1>0. /\ DOMAIN st = Parts /\ st.calls = v1 /\ st.owed = v2 /\ st.wrong = v3 /\ st.sessions = v4
      /\ st.frames = v5 /\ st.timers = v6 /\ Kept(st, {}, {})
  BY HereIs DEF Whole
<1>i. Typed(st) /\ CallsKept(st) /\ SessionsKept(st) /\ FramesKept(st) /\ Served(st, {}, {})
  BY <1>0 DEF Kept
<1>1. ps \subseteq Paths /\ \A p \in ps : v4[p] # None /\ v4[p].stage = "active"
  <2>1. "active" # None
    BY DEF PartnersAssumption
  <2> QED BY <2>1 DEF Por!Presented, Por!Stage, Por!Here
<1>2. Por!Set(Por!CloseSessions(to, ending))
  <2>1. Por!FrameIds = FrameIds
    BY DEF FrameIds, Por!FrameIds, Por!Owners
  <2> QED BY <2>1 DEF Por!Presented, Por!Step, Por!Here
<1>3. /\ DOMAIN to = Parts /\ to.calls = v1 /\ to.owed = v2 /\ to.wrong = v3 /\ to.sessions = S2
      /\ to.frames = F2 /\ to.timers = v6
  <2> HIDE DEF S2, F2
  <2> QED BY DEF Por!Here, Parts
<1>4. /\ served \subseteq ps /\ ending \subseteq Paths
      /\ \A p \in served : v4[p].capture = None /\ Por!Live(Target(p))
  BY <1>1
<1> HIDE DEF st, served, ending, waiting, to
<1>5. \A p \in Paths : v4[p] # None => v4[p] \in SessionRecords
  BY <1>0, <1>i DEF Typed
<1>n. \A p : Number(p) \in {0, 1}
  OBVIOUS
<1>8. ASSUME NEW p \in served
      PROVE  /\ Target(p) \in Sources /\ (v4[p].source # None => Target(p) = v4[p].source)
             /\ v4[p].again \in BOOLEAN /\ p \in Paths /\ v4[p] # None
             /\ v4[p].again \/ (v4[p].source # None /\ Por!Settle(p) \notin v6)
  <2>1. v4[p] \in SessionRecords /\ p \in Paths /\ v4[p] # None /\ v4[p].stage = "active"
    BY <1>1, <1>4, <1>5
  <2>2. Target(p) \in Sources /\ (v4[p].source # None => Target(p) = v4[p].source)
    BY <1>4, <2>1, AskedIs DEF Por!Live
  <2>3. Right(v4[p], p, v6)
    BY <1>0, <1>i, <2>1 DEF SessionsKept
  <2>4. v4[p].again \in BOOLEAN
    BY <2>1, SessionFields
  <2> QED BY <2>1, <2>2, <2>3, <2>4 DEF Right
<1> HIDE DEF Number, Target
<1>7. ASSUME NEW p \in Paths
      PROVE  /\ S2[p] # None <=> v4[p] # None
             /\ v4[p] # None =>
                  /\ S2[p] \in SessionRecords /\ S2[p].stage = v4[p].stage /\ S2[p].source = v4[p].source
                  /\ S2[p].request = v4[p].request /\ S2[p].again = v4[p].again
                  /\ S2[p].stream <=> v4[p].stream
                  /\ S2[p].capture = IF p \in served THEN <<p, Number(p)>> ELSE v4[p].capture
  <2>1. CASE p \notin served
    <3>1. S2[p] = v4[p]
      BY <2>1
    <3> HIDE DEF S2
    <3> QED BY <1>5, <2>1, <3>1
  <2>2. CASE p \in served
    <3> DEFINE old == v4[p]
               k == <<p, Number(p)>>
               s == [old EXCEPT !.capture = k]
    <3>1. S2[p] = s /\ v4[p] # None
      BY <1>1, <1>4, <2>2
    <3>2. old \in SessionRecords /\ k \in FrameIds \cup {None}
      BY <1>5, <1>n, <3>1 DEF FrameIds
    <3> HIDE DEF old, S2, k
    <3>3. /\ s \in SessionRecords /\ s.stage = old.stage /\ s.source = old.source
          /\ s.capture = k /\ s.request = old.request /\ s.stream = old.stream /\ s.again = old.again
      BY <3>2, CaptureSet
    <3> HIDE DEF s
    <3>4. s # None
      BY <3>3, PortalNone
    <3> QED BY <2>2, <3>1, <3>3, <3>4 DEF k, old
  <2> QED BY <2>1, <2>2
<1>10. ASSUME NEW p \in served
       PROVE  /\ <<p, Number(p)>> \in FrameIds /\ F2[<<p, Number(p)>>] \in FrameRecords
              /\ F2[<<p, Number(p)>>].target = Target(p) /\ F2[<<p, Number(p)>>].again = v4[p].again
  <2> DEFINE k == <<p, Number(p)>>
             x == Target(p)
             again == v4[p].again
             r == [target |-> x, copying |-> FALSE, again |-> again]
  <2>1. k \in FrameIds /\ k[1] = p /\ k[2] = Number(p)
    BY <1>8, <1>n DEF FrameIds
  <2> HIDE DEF k
  <2>2. F2[k] = r
    BY <2>1
  <2>3. x \in Sources /\ again \in BOOLEAN
    BY <1>8
  <2> HIDE DEF x, again, F2
  <2>4. r \in FrameRecords /\ r.target = x /\ r.again = again
    BY <2>3 DEF FrameRecords
  <2> HIDE DEF r
  <2> QED BY <2>1, <2>2, <2>4 DEF k, x, again
<1>9. ASSUME NEW k \in FrameIds
      PROVE  \/ F2[k] = v5[k]
             \/ k[1] \in served /\ k = <<k[1], Number(k[1])>>
  <2>1. CASE k[1] \in served /\ k[2] = Number(k[1])
    BY <2>1 DEF FrameIds
  <2> QED BY <2>1
<1>11. Typed(to)
  <2>1. S2 \in [Paths -> {None} \cup SessionRecords]
    <3>1. \A p \in Paths : S2[p] \in {None} \cup SessionRecords
      BY <1>7
    <3>2. DOMAIN S2 = Paths /\ S2 = [p \in Paths |-> S2[p]]
      OBVIOUS
    <3> HIDE DEF S2
    <3> QED BY <3>1, <3>2
  <2>2. F2 \in [FrameIds -> {None} \cup FrameRecords]
    <3>1. \A k \in FrameIds : v5[k] \in {None} \cup FrameRecords
      BY <1>0, <1>i DEF Typed
    <3>3. DOMAIN F2 = FrameIds /\ F2 = [k \in FrameIds |-> F2[k]]
      OBVIOUS
    <3> HIDE DEF F2
    <3>2. \A k \in FrameIds : F2[k] \in {None} \cup FrameRecords
      <4> SUFFICES ASSUME NEW k \in FrameIds PROVE F2[k] \in {None} \cup FrameRecords
        OBVIOUS
      <4>1. CASE k[1] \in served /\ k = <<k[1], Number(k[1])>>
        <5>1. F2[<<k[1], Number(k[1])>>] \in FrameRecords
          BY <1>10, <4>1
        <5> QED BY <4>1, <5>1
      <4> QED BY <1>9, <3>1, <4>1
    <3> QED BY <3>2, <3>3
  <2>3. v1 \in [Handles -> {None} \cup CallRecords]
    BY <1>0, <1>i DEF Typed
  <2> QED BY <1>3, <2>1, <2>2, <2>3 DEF Typed
<1> HIDE DEF S2, F2
<1>12. \A p \in Paths : to.sessions[p] # None <=> st.sessions[p] # None
  BY <1>0, <1>3, <1>7
<1>13. \A p \in Paths : st.sessions[p] # None =>
         /\ to.sessions[p].stage = st.sessions[p].stage /\ to.sessions[p].source = st.sessions[p].source
         /\ to.sessions[p].request = st.sessions[p].request /\ to.sessions[p].again = st.sessions[p].again
         /\ to.sessions[p].stream <=> st.sessions[p].stream
  BY <1>0, <1>3, <1>7
<1>14. ASSUME NEW p \in Paths, st.sessions[p] # None, to.sessions[p].capture # st.sessions[p].capture
       PROVE  /\ st.sessions[p].capture = None /\ st.sessions[p].stage = "active"
              /\ st.sessions[p].again \/ Por!Settle(p) \notin st.timers
              /\ to.sessions[p].capture[1] = p /\ Given(to.sessions[p], to.frames)
  <2> DEFINE k == <<p, Number(p)>>
             s == S2[p]
  <2>1. p \in served /\ s.capture = k /\ s = to.sessions[p]
    BY <1>0, <1>3, <1>7, <1>14
  <2>2. F2[k] \in FrameRecords /\ F2[k].target = Target(p) /\ F2[k].again = v4[p].again /\ k[1] = p
    BY <1>10, <2>1
  <2> HIDE DEF k
  <2>3. F2[k] # None
    BY <2>2, PortalNone
  <2>4. s.again = v4[p].again /\ s.source = v4[p].source
    BY <1>0, <1>7, <1>14
  <2>5. v4[p].source # None => Target(p) = v4[p].source
    BY <1>8, <2>1
  <2>6. v4[p].again \/ (v4[p].source # None /\ Por!Settle(p) \notin v6)
    BY <1>8, <2>1
  <2> HIDE DEF s
  <2>7. Given(s, F2)
    BY <2>1, <2>2, <2>3, <2>4, <2>5, <2>6 DEF Given
  <2> QED BY <1>0, <1>1, <1>3, <1>4, <2>1, <2>2, <2>6, <2>7
<1>15. ASSUME NEW k \in FrameIds, to.frames[k] # st.frames[k]
       PROVE  /\ k[1] \in Paths /\ st.sessions[k[1]] # None /\ st.sessions[k[1]].capture = None
              /\ to.sessions[k[1]].capture = k
  <2>1. k[1] \in served /\ k = <<k[1], Number(k[1])>>
    BY <1>0, <1>3, <1>9, <1>15
  <2>2. k[1] \in Paths /\ v4[k[1]] # None /\ v4[k[1]].capture = None
    BY <1>1, <1>4, <2>1
  <2> QED BY <1>0, <1>3, <1>7, <2>1, <2>2
<1>16. Kept(to, {}, {})
  <2>1. to.calls = st.calls /\ to.owed = st.owed /\ to.wrong = st.wrong /\ to.timers = st.timers
    BY <1>0, <1>3
  <2> QED BY <1>0, <1>11, <1>12, <1>13, <1>14, <1>15, <2>1, ManyAsk
<1>17. Kept(Por!CloseSessions(to, ending), {}, {})
  BY <1>4, <1>16, CloseSessionsKeeps, KeptMore
<1> QED BY <1>2, <1>17, HereKept DEF Whole

Steady == UNCHANGED <<source, connected>>

LEMMA CallStep ==
  ASSUME PartnersAssumption, Whole, NEW h \in Handles, NEW p \in Paths,
         Por!CreateSession(h, p) \/ Por!SelectSources(h, p) \/ Por!Start(h, p)
  PROVE  Whole' /\ Steady
<1>1. Steady
  BY DEF Steady, source, connected, Por!CreateSession, Por!SelectSources, Por!Start, Por!Step
<1> QED BY <1>1, CreateSessionKeeps, SelectSourcesKeeps, StartKeeps

LEMMA HandleStep ==
  ASSUME PartnersAssumption, Whole, NEW h \in Handles,
         \/ Por!ReplyTimer(h) \/ Por!BeginShot(h) \/ Por!ChooseShot(h) \/ Por!SelectRegion(h)
         \/ Por!ConfirmShot(h)
         \/ Por!SaveShot(h) \/ Por!ShowAccess(h) \/ Por!AccessAnswered(h) \/ Por!ShowFileChooser(h)
         \/ Por!FileAnswered(h) \/ Por!RejectDialog(h) \/ Por!CloseCall(h)
         \/ \E x \in Sources : Por!Share(h, x)
  PROVE  Whole' /\ Steady
<1>1. CASE Por!ReplyTimer(h)
  <2>1. Steady
    BY <1>1 DEF Steady, source, connected, Por!ReplyTimer, Por!Step
  <2> QED BY <1>1, <2>1, ReplyTimerKeeps
<1>2. CASE Por!BeginShot(h)
  <2>1. Steady
    BY <1>2 DEF Steady, source, connected, Por!BeginShot, Por!Step
  <2> QED BY <1>2, <2>1, BeginShotKeeps
<1>3. CASE Por!ChooseShot(h) \/ Por!SelectRegion(h) \/ Por!ConfirmShot(h) \/ Por!SaveShot(h)
  <2>1. Steady
    BY <1>3 DEF Steady, source, connected, Por!ChooseShot, Por!SelectRegion, Por!ConfirmShot, Por!SaveShot,
         Por!Step
  <2> QED BY <1>3, <2>1, ShotStepKeeps
<1>4. CASE Por!ShowAccess(h) \/ Por!ShowFileChooser(h) \/ Por!AccessAnswered(h) \/ Por!FileAnswered(h)
  <2>1. Steady
    BY <1>4 DEF Steady, source, connected, Por!ShowAccess, Por!ShowFileChooser, Por!AccessAnswered,
         Por!FileAnswered, Por!Step
  <2> QED BY <1>4, <2>1, DialogKeeps
<1>5. CASE Por!RejectDialog(h)
  <2>1. Steady
    BY <1>5 DEF Steady, source, connected, Por!RejectDialog, Por!Step
  <2> QED BY <1>5, <2>1, RejectDialogKeeps
<1>6. CASE Por!CloseCall(h)
  <2>1. Steady
    BY <1>6 DEF Steady, source, connected, Por!CloseCall, Por!Step
  <2> QED BY <1>6, <2>1, CloseCallKeeps
<1>7. ASSUME NEW x \in Sources, Por!Share(h, x) PROVE Whole' /\ Steady
  <2>1. Steady
    BY <1>7 DEF Steady, source, connected, Por!Share, Por!Step
  <2> QED BY <1>7, <2>1, ShareKeeps
<1> QED BY <1>1, <1>2, <1>3, <1>4, <1>5, <1>6, <1>7

LEMMA PathStep ==
  ASSUME PartnersAssumption, Whole, NEW p \in Paths,
         \/ Por!SettleTimer(p) \/ Por!LimitTimer(p) \/ Por!StreamReady(p) \/ Por!FrameNeeded(p)
         \/ Por!StreamFailed(p) \/ Por!CloseCast(p)
  PROVE  Whole' /\ Steady
<1>1. Steady
  BY DEF Steady, source, connected, Por!SettleTimer, Por!LimitTimer, Por!StreamReady, Por!FrameNeeded,
         Por!StreamFailed, Por!CloseCast, Por!Step
<1> QED BY <1>1, SettleTimerKeeps, LimitTimerKeeps, StreamReadyKeeps, FrameNeededKeeps, CastCloses

\* What the compositor has to share changes; a monitor that goes takes every frame.
LEMMA SourcesStep ==
  ASSUME PartnersAssumption, Whole, source \in [Sources -> {"new", "live", "closed", "gone"}], connected \in BOOLEAN,
         \/ \E x \in Sources : Por!SourceAppears(x)
         \/ \E x \in Screens : Por!ScreenRemoved(x)
         \/ \E w \in Toplevels : Por!WindowCloses(w)
         \/ Por!BatchDone
  PROVE  PortalInv'
<1> DEFINE Sourced == source' \in [Sources -> {"new", "live", "closed", "gone"}] /\ connected' \in BOOLEAN
<1>1. ASSUME v1' = v1, v2' = v2, v3' = v3, v4' = v4, v5' = v5, v6' = v6
      PROVE  Whole'
  <2>1. Por!Set(Por!Here)
    BY <1>1, HereIs DEF Por!Set
  <2> QED BY <2>1, HereKept DEF Whole
<1>2. CASE \E x \in Sources : Por!SourceAppears(x)
  <2>1. Sourced /\ UNCHANGED <<v1, v2, v3, v4, v5, v6>>
    BY <1>2 DEF Por!SourceAppears, Por!mainVars, source, connected
  <2> QED BY <1>1, <2>1 DEF PortalInv, Whole
<1>3. CASE \E w \in Toplevels : Por!WindowCloses(w)
  <2>1. Sourced /\ UNCHANGED <<v1, v2, v3, v4, v5, v6>>
    BY <1>3 DEF Por!WindowCloses, Por!mainVars, source, connected
  <2> QED BY <1>1, <2>1 DEF PortalInv, Whole
<1>4. CASE Por!BatchDone
  <2>1. Sourced /\ UNCHANGED <<v1, v2, v3, v4, v5, v6>>
    BY <1>4 DEF Por!BatchDone, Por!mainVars, Por!Sources, Sources, source, connected
  <2> QED BY <1>1, <2>1 DEF PortalInv, Whole
<1>5. CASE \E x \in Screens : Por!ScreenRemoved(x)
  <2> DEFINE st == Por!Here
             ks == {k \in Por!FrameIds : v5[k] # None}
  <2>1. Sourced /\ Por!Set(Por!Failed(st, ks))
    BY <1>5 DEF Por!ScreenRemoved, source, connected
  <2>2. Kept(st, {}, {})
    BY DEF Whole
  <2> HIDE DEF st, ks
  <2>3. Kept(Por!Failed(st, ks), {}, {})
    BY <2>2, FailedKeeps
  <2>4. Whole'
    BY <2>1, <2>3, HereKept DEF Whole
  <2> QED BY <2>1, <2>4 DEF PortalInv, Whole
<1> QED BY <1>2, <1>3, <1>4, <1>5

\* The process ends, and another begins.
LEMMA ProcessStep ==
  ASSUME PartnersAssumption, Whole, source \in [Sources -> {"new", "live", "closed", "gone"}], connected \in BOOLEAN,
         Por!Disconnect \/ Por!Restart
  PROVE  PortalInv'
<1>1. CASE Por!Disconnect
  <2> DEFINE st == Por!Here
             hs == Por!Shots(st)
             mid == Por!ShotsDone(st, hs)
             all == Paths
  <2>1. Por!Set(Por!CloseSessions(mid, all)) /\ source' = source /\ connected' = FALSE
    BY <1>1 DEF Por!Disconnect, source, connected
  <2>2. Kept(st, {}, {}) /\ \A h \in hs : h \in Handles /\ st.calls[h] # None /\ st.calls[h].kind = "shot"
    BY DEF Whole, Por!Shots
  <2> HIDE DEF st, hs
  <2>3. Kept(mid, {}, {} \ hs)
    BY <2>2, ShotsDoneKeeps
  <2>4. Kept(mid, {}, {})
    BY <2>3, KeptMore
  <2> HIDE DEF mid
  <2>5. Kept(Por!CloseSessions(mid, all), {}, {})
    BY <2>4, CloseSessionsKeeps, KeptMore
  <2> HIDE DEF all
  <2>6. Whole'
    BY <2>1, <2>5, HereKept DEF Whole
  <2> QED BY <2>1, <2>6 DEF PortalInv, Whole
<1>2. CASE Por!Restart
  <2> DEFINE c == [h \in Handles |-> None]
             s == [p \in Paths |-> None]
             f == [k \in FrameIds |-> None]
             w == FALSE
             st == Of(c, {}, w, s, f, {})
  <2>1. /\ v1' = c /\ v2' = {} /\ v3' = w /\ v4' = s /\ v5' = f /\ v6' = {}
        /\ source' \in [Sources -> {"new", "live"}] /\ connected' = TRUE
    BY <1>2 DEF Por!Restart, source, connected, Por!Sources, Sources, FrameIds, Por!FrameIds, Por!Owners
  <2>2. /\ DOMAIN st = Parts /\ st.calls = c /\ st.owed = {} /\ st.wrong = w /\ st.sessions = s
        /\ st.frames = f /\ st.timers = {}
    BY DEF Of, Parts
  <2> HIDE DEF st
  <2>3. Por!Set(st)
    BY <2>1, <2>2 DEF Por!Set
  <2>4. Kept(st, {}, {})
    BY <2>2, EmptyKept
  <2>5. Whole'
    BY <2>3, <2>4, HereKept DEF Whole
  <2>6. source' \in [Sources -> {"new", "live", "closed", "gone"}]
    BY <2>1
  <2> QED BY <2>1, <2>5, <2>6 DEF PortalInv, Whole
<1> QED BY <1>1, <1>2

LEMMA PortalStarts == PartnersAssumption /\ Por!Init => PortalInv
<1> SUFFICES ASSUME PartnersAssumption, Por!Init PROVE PortalInv
  OBVIOUS
<1> DEFINE st == Por!Here
<1>1. /\ v1 = [h \in Handles |-> None] /\ v2 = {} /\ v3 = FALSE /\ v4 = [p \in Paths |-> None]
      /\ v5 = [k \in FrameIds |-> None] /\ v6 = {}
      /\ source \in [Sources -> {"new", "live"}] /\ connected = TRUE
  BY DEF Por!Init, source, connected, Por!Sources, Sources, FrameIds, Por!FrameIds, Por!Owners
<1>2. /\ DOMAIN st = Parts /\ st.calls = v1 /\ st.owed = v2 /\ st.wrong = v3 /\ st.sessions = v4
      /\ st.frames = v5 /\ st.timers = v6
  BY HereIs
<1> HIDE DEF st
<1>3. Kept(st, {}, {})
  BY <1>1, <1>2, EmptyKept
<1>4. source \in [Sources -> {"new", "live", "closed", "gone"}]
  BY <1>1
<1> QED BY <1>1, <1>3, <1>4 DEF PortalInv, st

portalState == <<v1, v2, v3, v4, v5, v6, v7, v8>>

LEMMA PortalStep == PartnersAssumption /\ PortalInv /\ [Por!Next]_portalState => PortalInv'
<1> SUFFICES ASSUME PartnersAssumption, PortalInv, [Por!Next]_portalState PROVE PortalInv'
  OBVIOUS
<1>1. /\ Whole /\ source \in [Sources -> {"new", "live", "closed", "gone"}] /\ connected \in BOOLEAN
  BY DEF PortalInv, Whole
<1>2. Whole' /\ Steady => PortalInv'
  BY <1>1 DEF PortalInv, Whole, Steady
<1>3. CASE UNCHANGED portalState
  <2>1. Por!Set(Por!Here) /\ Steady
    BY <1>3, HereIs DEF Por!Set, portalState, Steady, source, connected
  <2>2. Whole'
    BY <1>1, <2>1, HereKept DEF Whole
  <2> QED BY <1>2, <2>1, <2>2
<1>4. ASSUME NEW h \in Handles, NEW p \in Paths,
             Por!CreateSession(h, p) \/ Por!SelectSources(h, p) \/ Por!Start(h, p)
      PROVE  PortalInv'
  BY <1>1, <1>2, <1>4, CallStep
<1>5. ASSUME NEW h \in Handles,
             \/ Por!ReplyTimer(h) \/ Por!BeginShot(h) \/ Por!ChooseShot(h) \/ Por!SelectRegion(h)
             \/ Por!ConfirmShot(h)
             \/ Por!SaveShot(h) \/ Por!ShowAccess(h) \/ Por!AccessAnswered(h) \/ Por!ShowFileChooser(h)
             \/ Por!FileAnswered(h) \/ Por!RejectDialog(h) \/ Por!CloseCall(h)
             \/ \E x \in Sources : Por!Share(h, x)
      PROVE  PortalInv'
  BY <1>1, <1>2, <1>5, HandleStep
<1>6. ASSUME NEW p \in Paths,
             \/ Por!SettleTimer(p) \/ Por!LimitTimer(p) \/ Por!StreamReady(p) \/ Por!FrameNeeded(p)
             \/ Por!StreamFailed(p) \/ Por!CloseCast(p)
      PROVE  PortalInv'
  BY <1>1, <1>2, <1>6, PathStep
<1>7. ASSUME NEW ps \in SUBSET Paths, Por!Presented(ps) PROVE PortalInv'
  <2>1. Steady
    BY <1>7 DEF Por!Presented, Por!Step, Steady, source, connected
  <2> QED BY <1>1, <1>2, <1>7, <2>1, PresentedKeeps
<1>8. ASSUME NEW k \in FrameIds, Por!FrameBuffer(k) \/ Por!FrameReady(k) \/ Por!FrameFailed(k)
      PROVE  PortalInv'
  <2>1. Steady
    BY <1>8 DEF Por!FrameBuffer, Por!FrameReady, Por!FrameFailed, Por!Step, Steady, source, connected
  <2> QED BY <1>1, <1>2, <1>8, <2>1, FrameStepKeeps
<1>9. CASE \/ \E x \in Sources : Por!SourceAppears(x)
           \/ \E x \in Screens : Por!ScreenRemoved(x)
           \/ \E w \in Toplevels : Por!WindowCloses(w)
           \/ Por!BatchDone
  BY <1>1, <1>9, SourcesStep
<1>10. CASE Por!Disconnect \/ Por!Restart
  BY <1>1, <1>10, ProcessStep
<1>11. Por!Sources = Sources /\ Por!FrameIds = FrameIds
  BY DEF Por!Sources, Sources, Por!FrameIds, FrameIds, Por!Owners
<1>12. CASE Por!Next
  BY <1>4, <1>5, <1>6, <1>7, <1>8, <1>9, <1>10, <1>11, <1>12 DEF Por!Next
<1> QED BY <1>3, <1>12

\* What the invariant says of the calls, of the frames and of consent.
LEMMA PortalSafe ==
  PartnersAssumption /\ PortalInv => Por!AnsweredOnce /\ Por!FramesOwned /\ Por!Consented
<1> SUFFICES ASSUME PartnersAssumption, PortalInv
             PROVE  Por!AnsweredOnce /\ Por!FramesOwned /\ Por!Consented
  OBVIOUS
<1> DEFINE st == Por!Here
<1>0. /\ DOMAIN st = Parts /\ st.calls = v1 /\ st.owed = v2 /\ st.wrong = v3 /\ st.sessions = v4
      /\ st.frames = v5 /\ st.timers = v6 /\ Kept(st, {}, {})
  BY HereIs DEF PortalInv
<1>c. \A k : Por!CastOf(st, k) = {p \in Paths : v4[p] # None /\ v4[p].capture = k}
  BY DEF Por!CastOf, Por!Here
<1>s. \A k : Por!ShotOf(st, k) = {h \in Handles : v1[h] # None /\ v1[h].kind = "shot" /\ k = <<h, 0>>}
  BY DEF Por!ShotOf, Por!Shots, Por!Here
<1>h. Por!Shots(st) = {h \in Handles : v1[h] # None /\ v1[h].kind = "shot"}
  BY DEF Por!Shots, Por!Here
<1>g. \A p : Por!Stage(st, p) = IF v4[p] = None THEN None ELSE v4[p].stage
  BY DEF Por!Stage, Por!Here
<1>y. Por!FrameIds = FrameIds /\ Por!Sources = Sources
  BY DEF Por!FrameIds, FrameIds, Por!Owners, Por!Sources, Sources
<1>i. /\ Typed(st) /\ CallsKept(st) /\ SessionsKept(st) /\ FramesKept(st) /\ Served(st, {}, {})
      /\ \A h \in Handles : CallKept(st, h)
  BY <1>0 DEF Kept, CallsKept
<1>n. None \notin FrameIds /\ Paths \cap Handles = {} /\ None \notin Paths
  BY PortalNone
<1>w. Por!AnsweredOnce
  <2> HIDE DEF st
  <2> QED BY <1>0, <1>i DEF Por!AnsweredOnce, CallsKept
<1>2. Por!FramesOwned
  <2> HIDE DEF st
  <2>1. ASSUME NEW k \in FrameIds, v5[k] # None
        PROVE  LET owners == Por!Cardinality(Por!CastOf(st, k)) + Por!Cardinality(Por!ShotOf(st, k))
               IN owners <= 1 /\ (~v5[k].again => owners = 1)
    <3> DEFINE cast == Por!CastOf(st, k)
               shot == Por!ShotOf(st, k)
               owner == k[1]
    <3>1. Due(st, k)
      BY <1>0, <1>i, <2>1 DEF FramesKept
    <3>2. k = <<k[1], k[2]>> /\ k # None /\ (owner \in Paths => owner \notin Handles)
      BY <1>n DEF FrameIds
    <3>3. \A p \in cast : p = owner /\ p \in Paths
      BY <1>0, <1>c, <1>i, <3>2 DEF SessionsKept, Right
    <3>4. \A h \in shot : h = owner /\ h \in Handles
      BY <1>s
    <3>5. ~v5[k].again => owner \in cast \/ owner \in shot
      BY <1>0, <1>c, <1>s, <3>1, <3>2 DEF Due
    <3> HIDE DEF cast, shot, owner
    <3>6. \/ cast = {} /\ shot = {} /\ v5[k].again
          \/ cast = {owner} /\ shot = {}
          \/ cast = {} /\ shot = {owner}
      BY <3>2, <3>3, <3>4, <3>5
    <3>7. Cardinality({}) = 0 /\ Cardinality({owner}) = 1
      BY FS_EmptySet, FS_Singleton
    <3>8. Por!Cardinality(cast) = Cardinality(cast) /\ Por!Cardinality(shot) = Cardinality(shot)
      BY DEF Por!Cardinality, Cardinality
    <3> QED BY <3>6, <3>7, <3>8 DEF cast, shot
  <2>2. \A p \in Paths : v4[p] # None /\ v4[p].capture # None => v5[v4[p].capture] # None
    BY <1>0, <1>i DEF Served, Given
  <2>3. ASSUME NEW p \in Paths
        PROVE  Por!Cardinality({n \in {0, 1} : v5[<<p, n>>] # None /\ ~v5[<<p, n>>].again}) <= 1
    <3> DEFINE ns == {n \in {0, 1} : v5[<<p, n>>] # None /\ ~v5[<<p, n>>].again}
    <3>1. ~(0 \in ns /\ 1 \in ns)
      <4> SUFFICES ASSUME v5[<<p, 0>>] # None, v5[<<p, 1>>] # None, ~v5[<<p, 0>>].again, ~v5[<<p, 1>>].again
                   PROVE  FALSE
        OBVIOUS
      <4> DEFINE j == <<p, 0>>
                 k == <<p, 1>>
      <4>1. j \in FrameIds /\ j[1] = p /\ k \in FrameIds /\ k[1] = p /\ j[2] = 0 /\ k[2] = 1
            /\ st.frames[j] # None /\ st.frames[k] # None /\ ~st.frames[j].again /\ ~st.frames[k].again
        BY <1>0 DEF FrameIds
      <4> HIDE DEF j, k
      <4>2. st.sessions[p].capture = j /\ st.sessions[p].capture = k
        BY <1>i, <4>1, IdleFrames
      <4> QED BY <4>1, <4>2
    <3>2. ns = {} \/ ns = {0} \/ ns = {1}
      BY <3>1
    <3> HIDE DEF ns
    <3>3. CASE ns = {}
      <4>1. Cardinality(ns) = 0
        BY <3>3, FS_EmptySet
      <4> QED BY <4>1 DEF ns, Por!Cardinality, Cardinality
    <3>4. CASE ns = {0} \/ ns = {1}
      <4>1. Cardinality(ns) = 1
        BY <3>4, FS_Singleton
      <4> QED BY <4>1 DEF ns, Por!Cardinality, Cardinality
    <3> QED BY <3>2, <3>3, <3>4
  <2>4. \A h \in Por!Shots(st) : ~v1[h].dialog => v5[<<h, 0>>] # None
    BY <1>0, <1>h, <1>i DEF Served
  <2> QED BY <1>y, <2>1, <2>2, <2>3, <2>4 DEF Por!FramesOwned, st
<1>3. Por!Consented
  <2> HIDE DEF st
  <2>1. ASSUME NEW p \in Paths, v4[p] # None
        PROVE  /\ ~v4[p].again /\ (v4[p].capture # None \/ v4[p].stream) =>
                    v4[p].source # None /\ ~\E h \in Handles : v1[h] # None /\ v1[h].path = p /\ v1[h].dialog
               /\ ~v4[p].again /\ v4[p].capture # None => v5[v4[p].capture].target = v4[p].source
               /\ v4[p].stage = "starting" => v1[v4[p].request] # None /\ v1[v4[p].request].kind = "start"
               /\ v4[p].stage = "active" => v4[p].stream
    <3>1. v4[p].source # None => \A h \in Handles : v1[h] # None /\ v1[h].path = p => ~v1[h].dialog
      BY <1>0, <1>i, NoDialog
    <3>2. Right(v4[p], p, v6) /\ Begins(st, p)
      BY <1>0, <1>i, <2>1 DEF SessionsKept
    <3>3. ~v4[p].again /\ v4[p].capture # None => v5[v4[p].capture].target = v4[p].source
      BY <1>0, <1>i, <2>1 DEF Served, Given
    <3>4. /\ v4[p].stage = "starting" => v1[v4[p].request] # None /\ v1[v4[p].request].kind = "start"
          /\ v4[p].stage = "active" => v4[p].stream
      BY <1>0, <3>2 DEF Right, Begins
    <3>5. ~v4[p].again /\ (v4[p].capture # None \/ v4[p].stream) => v4[p].source # None
      BY <3>2 DEF Right
    <3> QED BY <3>1, <3>3, <3>4, <3>5
  <2>2. \A h \in Handles : v1[h] # None /\ v1[h].path # None => v4[v1[h].path] # None
    BY <1>0, <1>i DEF CallKept
  <2>3. \A h \in Handles : v1[h] # None /\ v1[h].kind = "start" =>
          v1[h].path # None /\ v4[v1[h].path] # None /\ v4[v1[h].path].stage = "starting"
    BY <1>0, <1>i DEF CallKept
  <2>4. \A h \in Handles : v1[h] # None /\ v1[h].kind = "start" => Por!Stage(st, v1[h].path) = "starting"
    BY <1>g, <2>3
  <2> QED BY <2>1, <2>2, <2>4 DEF Por!Consented, st
<1> QED BY <1>2, <1>3, <1>w

\* The calls, sessions, frames and shared screens and windows have their types.
LEMMA PortalTypes == PartnersAssumption /\ PortalInv => Por!TypeOK
<1> SUFFICES ASSUME PartnersAssumption, PortalInv PROVE Por!TypeOK
  OBVIOUS
<1>1. /\ v1 \in [Handles -> {None} \cup CallRecords] /\ v4 \in [Paths -> {None} \cup SessionRecords]
      /\ v5 \in [FrameIds -> {None} \cup FrameRecords]
      /\ v3 = FALSE /\ v2 = {h \in Handles : v1[h] # None}
  BY HereIs DEF PortalInv, Kept, Typed, CallsKept
<1>2. Por!FrameIds = FrameIds /\ Por!Sources = Sources
  BY DEF Por!FrameIds, FrameIds, Por!Owners, Por!Sources, Sources
<1>3. \A h \in Handles : v1[h] # None =>
        /\ v1[h].kind \in {"create", "select", "start", "shot", "access", "file"} /\ v1[h].dialog \in BOOLEAN
        /\ v1[h].path \in Paths \cup {None}
  BY <1>1 DEF CallRecords
<1>4. \A p \in Paths : v4[p] # None =>
        /\ v4[p].stage \in {"created", "selected", "starting", "active"}
        /\ v4[p].source \in Sources \cup {None} /\ v4[p].capture \in FrameIds \cup {None}
  BY <1>1 DEF SessionRecords, Sources, FrameIds
<1>5. \A k \in FrameIds : v5[k] # None => v5[k] \in [target : Sources, copying : BOOLEAN, again : BOOLEAN]
  BY <1>1 DEF FrameRecords
<1>6. v7 \in [Sources -> {"new", "live", "closed", "gone"}] /\ v8 \in BOOLEAN
  BY DEF PortalInv, source, connected
<1> QED BY <1>1, <1>2, <1>3, <1>4, <1>5, <1>6 DEF Por!TypeOK

-----------------------------------------------------------------------------
(* X displays: nobody binds a name that is taken, so what a session has bound *)
(* under its own name stays its own, or its server's, until that ends.  And a *)
(* lock file is there for one session, so that who keeps a number has it, but *)
(* where another session took it away.                                        *)

at == v1
lock == v2
path == v3
abstract == v4
raced == v5
displayState == <<at, lock, path, abstract, raced>>
USE DEF at, lock, path, abstract, raced

Steps == {"idle", "open", "unlink", "bind", "pid", "made", "have", "gone"}
Places == [pc : Steps, n : Xdi!Numbers]
Locks == [by : Sessions \cup {None}, pid : BOOLEAN, dead : BOOLEAN]

DisplayTypes ==
  /\ at \in [Sessions -> Places]
  /\ lock \in [Xdi!Numbers -> Locks]
  /\ path \in [Xdi!Numbers -> Sessions \cup {None}]
  /\ abstract \in [Xdi!Numbers -> Sessions \cup {None}]
  /\ raced \subseteq Xdi!Numbers

\* Who has a display, or is about to, has its abstract socket.
HolderListens == \A p \in Sessions : Xdi!Serves(p) => abstract[at[p].n] = p

\* Who keeps a number has its lock file, unless there was a race.
Locked(p) == lock[at[p].n].by = p /\ ~lock[at[p].n].dead
KeeperLocked == \A p \in Sessions : Xdi!Keeps(p) => at[p].n \in raced \/ Locked(p)

DisplayInv == DisplayTypes /\ HolderListens /\ KeeperLocked

\* A step to another place of create_xwayland_display() keeps the type.
LEMMA GoType ==
  ASSUME DisplayTypes, NEW p \in Sessions, NEW n \in Xdi!Numbers, NEW pc \in Steps,
         at' = [at EXCEPT ![p] = [pc |-> pc, n |-> n]]
  PROVE  /\ at' \in [Sessions -> Places]
         /\ at'[p] = [pc |-> pc, n |-> n]
         /\ \A q \in Sessions \ {p} : at'[q] = at[q]
BY DEF DisplayTypes, Places

\* The next number, or none: in neither case is anything held.
LEMMA TryNextType ==
  ASSUME DisplayTypes, LastDisplay \in Nat, NEW p \in Sessions, NEW n \in Xdi!Numbers, Xdi!TryNext(p, n)
  PROVE  /\ at' \in [Sessions -> Places]
         /\ at'[p].pc \in {"idle", "open"}
         /\ \A q \in Sessions \ {p} : at'[q] = at[q]
<1>1. CASE n = LastDisplay
  <2>1. Xdi!Go(p, "idle", 0)
    BY <1>1 DEF Xdi!TryNext
  <2>2. 0 \in Xdi!Numbers
    BY DEF Xdi!Numbers
  <2> QED BY <2>1, <2>2, GoType DEF Xdi!Go, Steps
<1>2. CASE n # LastDisplay
  <2>1. Xdi!Go(p, "open", n + 1)
    BY <1>2 DEF Xdi!TryNext
  <2>2. n + 1 \in Xdi!Numbers
    BY <1>2 DEF Xdi!Numbers
  <2> QED BY <2>1, <2>2, GoType DEF Xdi!Go, Steps
<1> QED BY <1>1, <1>2

\* Who moves to a place without a display disturbs nobody whose socket stays.
LEMMA Unheld ==
  ASSUME HolderListens, NEW p \in Sessions, ~Xdi!Serves(p)',
         \A q \in Sessions \ {p} : at'[q] = at[q],
         \A q \in Sessions \ {p} : Xdi!Serves(q) => abstract'[at[q].n] = abstract[at[q].n]
  PROVE  HolderListens'
BY DEF HolderListens, Xdi!Serves

\* Who moves to a place without a number disturbs nobody whose lock stays.
LEMMA Unkept ==
  ASSUME KeeperLocked, NEW p \in Sessions, ~Xdi!Keeps(p)', raced \subseteq raced',
         \A q \in Sessions \ {p} : at'[q] = at[q],
         \A q \in Sessions \ {p} : Xdi!Keeps(q) =>
           at[q].n \in raced' \/ (Locked(q) => lock'[at[q].n].by = q /\ ~lock'[at[q].n].dead)
  PROVE  KeeperLocked'
BY DEF KeeperLocked, Xdi!Keeps, Xdi!Serves, Locked

\* Who goes on with its number disturbs nobody as long as the locks stay.
LEMMA StillKept ==
  ASSUME KeeperLocked, NEW p \in Sessions, Xdi!Keeps(p), at'[p].n = at[p].n,
         \A q \in Sessions \ {p} : at'[q] = at[q], raced' = raced,
         \A q \in Sessions : lock'[at[q].n].by = lock[at[q].n].by /\ lock'[at[q].n].dead = lock[at[q].n].dead
  PROVE  KeeperLocked'
BY DEF KeeperLocked, Xdi!Keeps, Xdi!Serves, Locked

\* Who gives up its number takes the lock file of nobody else, unless there was a race.
LEMMA LockLeft ==
  ASSUME DisplayTypes, KeeperLocked, NEW p \in Sessions, Xdi!Keeps(p), ~Xdi!Keeps(p)', raced' = raced,
         \A q \in Sessions \ {p} : at'[q] = at[q], at[p].n \in Xdi!Numbers,
         lock' = [lock EXCEPT ![at[p].n] = Xdi!NoLock]
  PROVE  KeeperLocked'
<1> SUFFICES ASSUME NEW q \in Sessions \ {p}, Xdi!Keeps(q), Locked(q), at[q].n \notin raced
             PROVE  lock'[at[q].n] = lock[at[q].n]
  BY Unkept DEF Locked
<1>1. at[q].n # at[p].n
  BY DEF KeeperLocked, Locked
<1> QED BY <1>1 DEF DisplayTypes, Places

\* Who closes its sockets leaves the others'.
LEMMA Released ==
  ASSUME DisplayTypes, HolderListens, NEW p \in Sessions, abstract' = Xdi!Freed(p)
  PROVE  /\ \A q \in Sessions \ {p} : Xdi!Serves(q) => abstract'[at[q].n] = abstract[at[q].n]
         /\ abstract' \in [Xdi!Numbers -> Sessions \cup {None}]
<1>1. \A q \in Sessions : at[q].n \in Xdi!Numbers
  BY DEF DisplayTypes, Places
<1>2. \A n \in Xdi!Numbers : abstract'[n] = IF Xdi!Listens(p, n) THEN None ELSE abstract[n]
  BY DEF Xdi!Freed
<1>3. \A n \in Xdi!Numbers : Xdi!Listens(p, n) => abstract[n] = p
  BY DEF Xdi!Listens, HolderListens, Xdi!Serves
<1>4. abstract' \in [Xdi!Numbers -> Sessions \cup {None}]
  BY DEF Xdi!Freed, DisplayTypes
<1>5. \A q \in Sessions \ {p} : Xdi!Serves(q) => abstract'[at[q].n] = abstract[at[q].n]
  BY <1>1, <1>2, <1>3 DEF HolderListens
<1> QED BY <1>4, <1>5

LEMMA DisplayInit == ASSUME LastDisplay \in Nat PROVE Xdi!Init => DisplayInv
BY DEF Xdi!Init, DisplayInv, DisplayTypes, HolderListens, KeeperLocked, Xdi!Serves, Xdi!Keeps, Steps,
  Places, Locks, Xdi!Numbers, Xdi!NoLock, Xdi!Idle

LEMMA DisplayStep ==
  ASSUME LastDisplay \in Nat, None \notin Sessions
  PROVE  DisplayInv /\ [Xdi!Next]_displayState => DisplayInv'
<1> SUFFICES ASSUME DisplayInv, [Xdi!Next]_displayState PROVE DisplayInv'
  OBVIOUS
<1> USE DEF DisplayInv
<1>0. \A p \in Sessions : at[p].n \in Xdi!Numbers
  BY DEF DisplayTypes, Places
<1>l. Xdi!NoLock \in Locks /\ \A p \in Sessions : [Xdi!NoLock EXCEPT !.by = p] \in Locks
  BY DEF Xdi!NoLock, Locks
<1>z. 0 \in Xdi!Numbers
  BY DEF Xdi!Numbers
<1>1. CASE UNCHANGED displayState
  BY <1>1 DEF displayState, DisplayTypes, HolderListens, KeeperLocked, Xdi!Serves, Xdi!Keeps, Locked
<1>2. ASSUME NEW p \in Sessions, Xdi!Begin(p) PROVE DisplayInv'
  <2>1. Xdi!Go(p, "open", 0) /\ UNCHANGED <<lock, path, abstract, raced>>
    BY <1>2 DEF Xdi!Begin
  <2>2. /\ at' \in [Sessions -> Places] /\ at'[p] = [pc |-> "open", n |-> 0]
        /\ \A q \in Sessions \ {p} : at'[q] = at[q]
    BY <2>1, <1>z, GoType DEF Xdi!Go, Steps
  <2>3. ~Xdi!Serves(p)' /\ ~Xdi!Keeps(p)'
    BY <2>2 DEF Xdi!Serves, Xdi!Keeps
  <2>4. HolderListens'
    BY <2>1, <2>2, <2>3, Unheld
  <2>5. KeeperLocked'
    BY <2>1, <2>2, <2>3, Unkept DEF Locked
  <2> QED BY <2>1, <2>2, <2>4, <2>5 DEF DisplayTypes
<1>3. ASSUME NEW p \in Sessions, Xdi!OpenLock(p) PROVE DisplayInv'
  <2> DEFINE n == at[p].n
  <2>1. n \in Xdi!Numbers
    BY <1>0
  <2>2. CASE /\ lock[n].by = None /\ Xdi!Go(p, "bind", n)
             /\ lock' = [lock EXCEPT ![n] = [Xdi!NoLock EXCEPT !.by = p]]
             /\ UNCHANGED <<path, abstract, raced>>
    <3>1. /\ at' \in [Sessions -> Places] /\ at'[p] = [pc |-> "bind", n |-> n]
          /\ \A q \in Sessions \ {p} : at'[q] = at[q]
      BY <2>1, <2>2, GoType DEF Xdi!Go, Steps
    <3>2. lock' \in [Xdi!Numbers -> Locks] /\ lock'[n].by = p /\ ~lock'[n].dead
      BY <1>l, <2>1, <2>2 DEF DisplayTypes, Xdi!NoLock
    <3>3. HolderListens'
      BY <2>2, <3>1, Unheld DEF Xdi!Serves
    <3>4. \A q \in Sessions \ {p} : Xdi!Keeps(q) /\ at[q].n \notin raced =>
            lock'[at[q].n] = lock[at[q].n]
      BY <1>0, <2>1, <2>2 DEF KeeperLocked, Locked, DisplayTypes
    <3>5. KeeperLocked'
      <4> SUFFICES ASSUME NEW q \in Sessions, Xdi!Keeps(q)', at'[q].n \notin raced'
                   PROVE  Locked(q)'
        BY DEF KeeperLocked
      <4>1. CASE q = p
        BY <3>1, <3>2, <4>1 DEF Locked
      <4>2. CASE q # p
        <5>1. at'[q] = at[q] /\ Xdi!Keeps(q) /\ at[q].n \notin raced
          BY <2>2, <3>1, <4>2 DEF Xdi!Keeps, Xdi!Serves
        <5> QED BY <3>4, <4>2, <5>1 DEF KeeperLocked, Locked
      <4> QED BY <4>1, <4>2
    <3> QED BY <2>2, <3>1, <3>2, <3>3, <3>5 DEF DisplayTypes
  <2>3. CASE Xdi!Go(p, "unlink", n) /\ UNCHANGED <<lock, path, abstract, raced>>
    <3>1. /\ at' \in [Sessions -> Places] /\ at'[p] = [pc |-> "unlink", n |-> n]
          /\ \A q \in Sessions \ {p} : at'[q] = at[q]
      BY <2>1, <2>3, GoType DEF Xdi!Go, Steps
    <3>2. ~Xdi!Serves(p)' /\ ~Xdi!Keeps(p)'
      BY <3>1 DEF Xdi!Serves, Xdi!Keeps
    <3>3. HolderListens' /\ KeeperLocked'
      BY <2>3, <3>1, <3>2, Unheld, Unkept DEF Locked
    <3> QED BY <2>3, <3>1, <3>3 DEF DisplayTypes
  <2>4. CASE Xdi!TryNext(p, n) /\ UNCHANGED <<lock, path, abstract, raced>>
    <3>1. /\ at' \in [Sessions -> Places] /\ at'[p].pc \in {"idle", "open"}
          /\ \A q \in Sessions \ {p} : at'[q] = at[q]
      BY <2>1, <2>4, TryNextType
    <3>2. ~Xdi!Serves(p)' /\ ~Xdi!Keeps(p)'
      BY <3>1 DEF Xdi!Serves, Xdi!Keeps
    <3>3. HolderListens' /\ KeeperLocked'
      BY <2>4, <3>1, <3>2, Unheld, Unkept DEF Locked
    <3> QED BY <2>4, <3>1, <3>3 DEF DisplayTypes
  <2> QED BY <1>3, <2>2, <2>3, <2>4 DEF Xdi!OpenLock
<1>4. ASSUME NEW p \in Sessions, Xdi!UnlinkStale(p) PROVE DisplayInv'
  <2> DEFINE n == at[p].n
  <2>1. n \in Xdi!Numbers
    BY <1>0
  <2>2. /\ lock' = [lock EXCEPT ![n] = Xdi!NoLock] /\ UNCHANGED <<path, abstract>>
        /\ raced' = IF lock[n].pid /\ lock[n].dead THEN raced ELSE raced \cup {n}
    BY <1>4 DEF Xdi!UnlinkStale
  <2>3. lock' \in [Xdi!Numbers -> Locks] /\ raced \subseteq raced' /\ raced' \subseteq Xdi!Numbers
    BY <1>l, <2>1, <2>2 DEF DisplayTypes
  <2>4. /\ at' \in [Sessions -> Places] /\ at'[p].pc \in {"idle", "open"}
        /\ \A q \in Sessions \ {p} : at'[q] = at[q]
    <3>1. CASE Xdi!TryNext(p, n)
      BY <2>1, <3>1, TryNextType
    <3>2. CASE Xdi!Go(p, "open", n)
      BY <2>1, <3>2, GoType DEF Xdi!Go, Steps
    <3> QED BY <1>4, <3>1, <3>2 DEF Xdi!UnlinkStale
  <2>5. ~Xdi!Serves(p)' /\ ~Xdi!Keeps(p)'
    BY <2>4 DEF Xdi!Serves, Xdi!Keeps
  <2>6. HolderListens'
    BY <2>2, <2>4, <2>5, Unheld
  <2>7. \A q \in Sessions \ {p} : Xdi!Keeps(q) =>
          at[q].n \in raced' \/ (Locked(q) => lock'[at[q].n].by = q /\ ~lock'[at[q].n].dead)
    <3> SUFFICES ASSUME NEW q \in Sessions \ {p}, Locked(q), at[q].n \notin raced'
                 PROVE  lock'[at[q].n] = lock[at[q].n]
      BY DEF Locked
    <3>1. at[q].n # n
      BY <2>2 DEF Locked
    <3> QED BY <1>0, <2>1, <2>2, <3>1 DEF DisplayTypes
  <2>8. KeeperLocked'
    BY <2>3, <2>4, <2>5, <2>7, Unkept
  <2> QED BY <2>2, <2>3, <2>4, <2>6, <2>8 DEF DisplayTypes
<1>5. ASSUME NEW p \in Sessions, Xdi!Bind(p) PROVE DisplayInv'
  <2> DEFINE n == at[p].n
  <2>1. n \in Xdi!Numbers /\ Xdi!Keeps(p) /\ raced' = raced
    BY <1>0, <1>5 DEF Xdi!Bind, Xdi!Keeps
  <2>2. CASE abstract[n] = None
    <3>1. /\ abstract' = [abstract EXCEPT ![n] = p] /\ path' = [path EXCEPT ![n] = p]
          /\ Xdi!Go(p, "pid", n) /\ lock' = lock
      BY <1>5, <2>2 DEF Xdi!Bind
    <3>2. /\ at' \in [Sessions -> Places] /\ at'[p] = [pc |-> "pid", n |-> n]
          /\ \A q \in Sessions \ {p} : at'[q] = at[q]
      BY <2>1, <3>1, GoType DEF Xdi!Go, Steps
    <3>3. DisplayTypes'
      BY <2>1, <3>1, <3>2 DEF DisplayTypes
    <3>4. \A q \in Sessions \ {p} : Xdi!Serves(q) => at[q].n # n
      BY <2>2 DEF HolderListens
    <3>5. HolderListens'
      BY <2>1, <3>1, <3>2, <3>4 DEF HolderListens, Xdi!Serves, DisplayTypes
    <3>6. KeeperLocked'
      BY <2>1, <3>1, <3>2, StillKept
    <3> QED BY <3>3, <3>5, <3>6
  <2>3. CASE abstract[n] # None
    <3>1. /\ path' = [path EXCEPT ![n] = None] /\ lock' = [lock EXCEPT ![n] = Xdi!NoLock]
          /\ Xdi!TryNext(p, n) /\ abstract' = abstract
      BY <1>5, <2>3 DEF Xdi!Bind
    <3>2. /\ at' \in [Sessions -> Places] /\ at'[p].pc \in {"idle", "open"}
          /\ \A q \in Sessions \ {p} : at'[q] = at[q]
      BY <2>1, <3>1, TryNextType
    <3>3. ~Xdi!Serves(p)' /\ ~Xdi!Keeps(p)'
      BY <3>2 DEF Xdi!Serves, Xdi!Keeps
    <3>4. lock' \in [Xdi!Numbers -> Locks]
      BY <1>l, <2>1, <3>1 DEF DisplayTypes
    <3>5. HolderListens'
      BY <3>1, <3>2, <3>3, Unheld
    <3>6. KeeperLocked'
      BY <1>0, <2>1, <3>1, <3>2, <3>3, LockLeft
    <3> QED BY <2>1, <3>1, <3>2, <3>4, <3>5, <3>6 DEF DisplayTypes
  <2> QED BY <2>2, <2>3
<1>6. ASSUME NEW p \in Sessions, Xdi!WritePid(p) PROVE DisplayInv'
  <2> DEFINE n == at[p].n
  <2>1. n \in Xdi!Numbers
    BY <1>0
  <2>2. /\ at[p].pc = "pid" /\ Xdi!Go(p, "made", n) /\ UNCHANGED <<path, abstract, raced>>
        /\ lock' = IF lock[n].by = p THEN [lock EXCEPT ![n].pid = TRUE] ELSE lock
    BY <1>6 DEF Xdi!WritePid
  <2>3. /\ at' \in [Sessions -> Places] /\ at'[p] = [pc |-> "made", n |-> n]
        /\ \A q \in Sessions \ {p} : at'[q] = at[q]
    BY <2>1, <2>2, GoType DEF Xdi!Go, Steps
  <2>4. /\ lock' \in [Xdi!Numbers -> Locks]
        /\ \A i \in Xdi!Numbers : lock'[i].by = lock[i].by /\ lock'[i].dead = lock[i].dead
    <3>2. \A i \in Xdi!Numbers : lock[i] \in Locks
      BY DEF DisplayTypes
    <3>1. [lock[n] EXCEPT !.pid = TRUE] \in Locks
      BY ONLY <2>1, <3>2 DEF Locks
    <3> QED BY <2>1, <2>2, <3>1, <3>2 DEF DisplayTypes, Locks
  <2>5. HolderListens'
    BY <2>2, <2>3 DEF HolderListens, Xdi!Serves
  <2>6. KeeperLocked'
    BY <1>0, <2>2, <2>3, <2>4, StillKept DEF Xdi!Keeps, Xdi!Serves
  <2> QED BY <2>2, <2>3, <2>4, <2>5, <2>6 DEF DisplayTypes
<1>7. ASSUME NEW p \in Sessions, Xdi!Spawn(p) PROVE DisplayInv'
  <2> DEFINE n == at[p].n
  <2>1. n \in Xdi!Numbers /\ at[p].pc = "made" /\ UNCHANGED <<lock, path, raced>>
    BY <1>0, <1>7 DEF Xdi!Spawn
  <2>2. /\ at' \in [Sessions -> Places] /\ at'[p].n = n
        /\ \A q \in Sessions \ {p} : at'[q] = at[q]
    <3>1. PICK pc \in {"have", "gone"} : at' = [at EXCEPT ![p] = [pc |-> pc, n |-> n]]
      BY <1>7 DEF Xdi!Spawn, Xdi!Go
    <3> QED BY <2>1, <3>1, GoType DEF Steps
  <2>3. KeeperLocked'
    BY <2>1, <2>2, StillKept DEF Xdi!Keeps, Xdi!Serves
  <2>4. CASE Xdi!Go(p, "have", n) /\ abstract' = abstract
    <3>1. HolderListens'
      BY <2>1, <2>2, <2>4 DEF HolderListens, Xdi!Serves
    <3> QED BY <2>1, <2>2, <2>3, <2>4, <3>1 DEF DisplayTypes
  <2>5. CASE Xdi!Go(p, "gone", n) /\ abstract' = [abstract EXCEPT ![n] = None]
    <3>1. ~Xdi!Serves(p)'
      BY <2>1, <2>5, GoType DEF Xdi!Serves, Xdi!Go, Steps
    <3>2. \A q \in Sessions \ {p} : Xdi!Serves(q) => abstract'[at[q].n] = abstract[at[q].n]
      BY <1>0, <2>1, <2>5 DEF HolderListens, Xdi!Serves, DisplayTypes
    <3>3. HolderListens'
      BY <2>2, <3>1, <3>2, Unheld
    <3> QED BY <2>1, <2>2, <2>3, <2>5, <3>3 DEF DisplayTypes
  <2> QED BY <1>7, <2>4, <2>5 DEF Xdi!Spawn
<1>8. ASSUME NEW p \in Sessions, NEW n \in Xdi!Numbers, Xdi!ServerEnds(p, n) PROVE DisplayInv'
  <2>1. /\ abstract[n] = p /\ ~Xdi!Listens(p, n) /\ abstract' = [abstract EXCEPT ![n] = None]
        /\ at' = IF at[p] = [pc |-> "have", n |-> n] THEN [at EXCEPT ![p].pc = "gone"] ELSE at
        /\ UNCHANGED <<lock, path, raced>>
    BY <1>8 DEF Xdi!ServerEnds
  <2>2. at[p] \in Places
    BY DEF DisplayTypes
  <2>3. /\ at' \in [Sessions -> Places] /\ \A q \in Sessions : at'[q].n = at[q].n
        /\ \A q \in Sessions \ {p} : at'[q] = at[q]
    BY <2>1, <2>2 DEF DisplayTypes, Places, Steps
  <2>4. at'[p].pc = at[p].pc \/ (at[p].pc = "have" /\ at'[p].pc = "gone")
    BY <2>1, <2>2 DEF DisplayTypes, Places
  <2>5. at[p].n = n => ~Xdi!Serves(p)'
    BY <2>1, <2>2 DEF DisplayTypes, Places, Xdi!Serves, Xdi!Listens
  <2>6. HolderListens'
    <3> SUFFICES ASSUME NEW q \in Sessions, Xdi!Serves(q)' PROVE abstract'[at'[q].n] = q
      BY DEF HolderListens
    <3>1. Xdi!Serves(q) /\ at'[q].n = at[q].n
      BY <2>3, <2>4 DEF Xdi!Serves
    <3>2. at[q].n # n
      BY <2>1, <2>5, <3>1 DEF HolderListens
    <3> QED BY <1>0, <2>1, <3>1, <3>2 DEF HolderListens, DisplayTypes
  <2>7. KeeperLocked'
    <3> SUFFICES ASSUME NEW q \in Sessions, Xdi!Keeps(q)' PROVE at'[q].n \in raced' \/ Locked(q)'
      BY DEF KeeperLocked
    <3>1. Xdi!Keeps(q) /\ at'[q].n = at[q].n
      BY <2>3, <2>4 DEF Xdi!Serves, Xdi!Keeps
    <3> QED BY <2>1, <3>1 DEF KeeperLocked, Locked
  <2>8. abstract' \in [Xdi!Numbers -> Sessions \cup {None}]
    BY <2>1 DEF DisplayTypes
  <2> QED BY <2>1, <2>3, <2>6, <2>7, <2>8 DEF DisplayTypes
<1>9. ASSUME NEW p \in Sessions, Xdi!Destroy(p) PROVE DisplayInv'
  <2> DEFINE n == at[p].n
  <2>1. n \in Xdi!Numbers /\ Xdi!Keeps(p)
    BY <1>0, <1>9 DEF Xdi!Destroy, Xdi!Keeps, Xdi!Serves
  <2>2. /\ Xdi!Go(p, "idle", 0) /\ abstract' = Xdi!Freed(p) /\ raced' = raced
        /\ path' = [path EXCEPT ![n] = None] /\ lock' = [lock EXCEPT ![n] = Xdi!NoLock]
    BY <1>9 DEF Xdi!Destroy
  <2>3. /\ at' \in [Sessions -> Places] /\ at'[p] = [pc |-> "idle", n |-> 0]
        /\ \A q \in Sessions \ {p} : at'[q] = at[q]
    BY <1>z, <2>2, GoType DEF Xdi!Go, Steps
  <2>4. ~Xdi!Serves(p)' /\ ~Xdi!Keeps(p)'
    BY <2>3 DEF Xdi!Serves, Xdi!Keeps
  <2>5. lock' \in [Xdi!Numbers -> Locks] /\ path' \in [Xdi!Numbers -> Sessions \cup {None}]
    BY <1>l, <2>1, <2>2 DEF DisplayTypes
  <2>6. HolderListens' /\ abstract' \in [Xdi!Numbers -> Sessions \cup {None}]
    BY <2>2, <2>3, <2>4, Released, Unheld
  <2>7. KeeperLocked'
    BY <1>0, <2>1, <2>2, <2>3, <2>4, LockLeft
  <2> QED BY <2>2, <2>3, <2>5, <2>6, <2>7 DEF DisplayTypes
<1>10. ASSUME NEW p \in Sessions, Xdi!Crash(p) PROVE DisplayInv'
  <2>1. /\ Xdi!Go(p, "idle", 0) /\ abstract' = Xdi!Freed(p) /\ UNCHANGED <<path, raced>>
        /\ lock' = [n \in Xdi!Numbers |-> IF lock[n].by = p THEN [lock[n] EXCEPT !.dead = TRUE] ELSE lock[n]]
    BY <1>10 DEF Xdi!Crash
  <2>2. /\ at' \in [Sessions -> Places] /\ at'[p] = [pc |-> "idle", n |-> 0]
        /\ \A q \in Sessions \ {p} : at'[q] = at[q]
    BY <1>z, <2>1, GoType DEF Xdi!Go, Steps
  <2>3. ~Xdi!Serves(p)' /\ ~Xdi!Keeps(p)'
    BY <2>2 DEF Xdi!Serves, Xdi!Keeps
  <2>4. lock' \in [Xdi!Numbers -> Locks]
    <3>1. \A n \in Xdi!Numbers : lock[n] \in Locks /\ [lock[n] EXCEPT !.dead = TRUE] \in Locks
      BY DEF DisplayTypes, Locks
    <3> QED BY <2>1, <3>1
  <2>5. HolderListens' /\ abstract' \in [Xdi!Numbers -> Sessions \cup {None}]
    BY <2>1, <2>2, <2>3, Released, Unheld
  <2>6. \A q \in Sessions \ {p} : Locked(q) => lock'[at[q].n] = lock[at[q].n]
    BY <1>0, <2>1 DEF Locked
  <2>7. KeeperLocked'
    BY <2>1, <2>2, <2>3, <2>6, Unkept DEF Locked
  <2> QED BY <2>1, <2>2, <2>4, <2>5, <2>7 DEF DisplayTypes
<1> QED BY <1>1, <1>2, <1>3, <1>4, <1>5, <1>6, <1>7, <1>8, <1>9, <1>10 DEF Xdi!Next

\* Who has a display listens on it, and nobody else does; and who keeps a number has
\* its lock file, which is one.
LEMMA DisplaySafe == DisplayInv => Xdi!TypeOK /\ Xdi!OneHolder
<1> SUFFICES ASSUME DisplayInv PROVE Xdi!TypeOK /\ Xdi!OneHolder
  OBVIOUS
<1>1. Xdi!TypeOK
  BY DEF DisplayInv, DisplayTypes, Places, Steps, Xdi!TypeOK
<1>2. \A p \in Sessions : Xdi!Serves(p) => abstract[at[p].n] = p
  BY DEF DisplayInv, HolderListens
<1>3. \A p \in Sessions : Xdi!Keeps(p) =>
        at[p].n \in raced \/ (lock[at[p].n].by = p /\ ~lock[at[p].n].dead)
  BY DEF DisplayInv, KeeperLocked, Locked
<1> QED BY <1>1, <1>2, <1>3 DEF Xdi!OneHolder

HIDE DEF at, lock, path, abstract, raced

-----------------------------------------------------------------------------
(* Managers.  NoChangeLost is not inductive: while a notice is pending, the *)
(* changes that a manager still has to hear of are those the notice has     *)
(* gathered.                                                                *)

managers == v1
policy == v2
notice == v3
asking == v4
events == v5
heard == v6
got == v7
since == v8
managersState == <<managers, policy, notice, asking, events, heard, got, since>>
USE DEF managers, policy, notice, asking, events, heard, got, since

ManagerEvent == [op : {"changed", "state"}, serial : 1..MaxSerial, kinds : SUBSET Kinds]

\* The types of TypeOK, in groups.
CompositorTypes ==
  /\ policy \in [owner : Managers \cup {None}, external : BOOLEAN]
  /\ notice \in [serial : 1..MaxSerial, changes : SUBSET Kinds, pending : BOOLEAN]
ManagerTypes ==
  /\ managers \subseteq Managers /\ asking \subseteq managers
  /\ heard \in [Managers -> 0..MaxSerial]
  /\ got \in [Managers -> SUBSET Kinds] /\ since \in [Managers -> SUBSET Kinds]
ChannelTypes == events \in [Managers -> Seq(ManagerEvent)]

\* Who is not bound has nothing, and who is not asked has gathered nothing.
Unbound == \A m \in Managers \ managers : heard[m] = 0 /\ events[m] = <<>>
NothingGathered == ~notice.pending => notice.changes = {}
\* What a manager will know, or will be told by the pending notice.
Owed ==
  \A m \in managers : heard[m] # 0 /\ m \notin asking =>
    /\ notice.pending \/ Wms!LastSerial(m) = notice.serial
    /\ since[m] \subseteq Wms!Told(m) \cup notice.changes
\* No serial is ahead of the compositor's.
NotAhead ==
  \A m \in Managers :
    /\ heard[m] <= notice.serial
    /\ \A i \in DOMAIN events[m] : events[m][i].serial <= notice.serial
Ordered ==
  \A m \in Managers : \A i \in DOMAIN events[m] :
    /\ heard[m] <= events[m][i].serial
    /\ \A j \in DOMAIN events[m] : i < j => events[m][i].serial <= events[m][j].serial

ManagersTyped == CompositorTypes /\ ManagerTypes /\ ChannelTypes
ManagersKnown == Unbound /\ NothingGathered /\ Owed
SerialInv == NotAhead /\ Ordered
ManagersInv == ManagersTyped /\ ManagersKnown /\ SerialInv /\ Wms!PolicyHasOwner

-----------------------------------------------------------------------------
(* Queues of events. *)

\* What Append and Tail do to the elements of a queue.
LEMMA EventAppended ==
  ASSUME NEW q \in Seq(ManagerEvent), NEW e \in ManagerEvent
  PROVE /\ Append(q, e) \in Seq(ManagerEvent)
        /\ Len(Append(q, e)) = Len(q) + 1 /\ Append(q, e)[Len(q) + 1] = e
        /\ \A i \in DOMAIN q : Append(q, e)[i] = q[i]
        /\ DOMAIN Append(q, e) = DOMAIN q \cup {Len(q) + 1}
        /\ DOMAIN q = 1..Len(q) /\ Len(q) \in Nat
  OBVIOUS

LEMMA EventRemoved ==
  ASSUME NEW q \in Seq(ManagerEvent), q # <<>>
  PROVE /\ Tail(q) \in Seq(ManagerEvent) /\ Head(q) \in ManagerEvent
        /\ Len(q) \in Nat /\ Len(q) >= 1 /\ Len(Tail(q)) = Len(q) - 1
        /\ DOMAIN q = 1..Len(q) /\ DOMAIN Tail(q) = 1..Len(q) - 1
        /\ \A i \in 1..Len(q) - 1 : Tail(q)[i] = q[i + 1]
        /\ Head(q) = q[1]
        /\ \A i \in DOMAIN q : q[i] \in ManagerEvent
        /\ Tail(q) = <<>> <=> Len(q) = 1
<1>1. Tail(q) \in Seq(ManagerEvent) /\ Head(q) \in ManagerEvent /\ Head(q) = q[1]
  BY HeadTailProperties
<1>2. Len(q) \in Nat /\ Len(q) >= 1 /\ Len(Tail(q)) = Len(q) - 1
  BY HeadTailProperties, LenProperties, EmptySeq
<1>3. /\ DOMAIN q = 1..Len(q) /\ DOMAIN Tail(q) = 1..Len(q) - 1
      /\ \A i \in DOMAIN q : q[i] \in ManagerEvent
  BY <1>1, <1>2, LenProperties, ElementOfSeq
<1>4. \A i \in 1..Len(q) - 1 : Tail(q)[i] = q[i + 1]
  BY <1>1, <1>2, HeadTailProperties
<1>5. Tail(q) = <<>> <=> Len(q) = 1
  <2>1. Len(<<>>) = 0
    OBVIOUS
  <2>2. ASSUME Tail(q) # <<>> PROVE Len(Tail(q)) # 0
    BY <1>1, <2>2, EmptySeq
  <2>3. ASSUME Tail(q) = <<>> PROVE Len(q) = 1
    <3>1. Len(Tail(q)) = 0
      BY <2>1, <2>3
    <3> QED BY ONLY <1>2, <3>1
  <2>4. ASSUME Len(q) = 1 PROVE Tail(q) = <<>>
    <3>1. Len(Tail(q)) = 0
      BY <1>2, <2>4
    <3> QED BY <2>2, <3>1
  <2> QED BY <2>3, <2>4
<1> QED BY <1>1, <1>2, <1>3, <1>4, <1>5

-----------------------------------------------------------------------------
LEMMA ManagersStart == ASSUME MaxSerial \in Nat \ {0}, None \notin Managers, Wms!Init PROVE ManagersInv
<1>1. ManagersTyped
  BY DEF Wms!Init, Wms!Nobody, ManagersTyped, CompositorTypes, ManagerTypes, ChannelTypes
<1>2. ManagersKnown /\ Wms!PolicyHasOwner
  <2>1. managers = {} /\ policy.owner = None /\ policy.external = FALSE /\ notice.changes = {}
    BY DEF Wms!Init, Wms!Nobody
  <2>2. Unbound
    BY DEF Wms!Init, Unbound
  <2>3. NothingGathered /\ Owed
    BY <2>1 DEF NothingGathered, Owed
  <2>4. Wms!PolicyHasOwner
    BY <2>1 DEF Wms!PolicyHasOwner
  <2> QED BY <2>2, <2>3, <2>4 DEF ManagersKnown
<1>3. SerialInv
  <2>1. \A m \in Managers : DOMAIN events[m] = {} /\ heard[m] = 0
    <3>1. DOMAIN <<>> = {}
      OBVIOUS
    <3>2. \A m \in Managers : events[m] = <<>> /\ heard[m] = 0
      BY DEF Wms!Init
    <3> QED BY <3>1, <3>2
  <2>2. NotAhead
    <3>1. \A m \in Managers : heard[m] <= notice.serial
      <4>1. notice.serial = 1 /\ \A m \in Managers : heard[m] = 0
        BY DEF Wms!Init
      <4> SUFFICES ASSUME NEW m \in Managers PROVE heard[m] <= notice.serial
        OBVIOUS
      <4>2. heard[m] = 0 /\ notice.serial = 1
        BY <4>1
      <4> QED BY ONLY <4>2
    <3>2. \A m \in Managers : \A i \in DOMAIN events[m] : FALSE
      BY <2>1
    <3> QED BY <3>1, <3>2 DEF NotAhead
  <2>3. Ordered
    BY <2>1 DEF Ordered
  <2> QED BY <2>2, <2>3 DEF SerialInv
<1> QED BY <1>1, <1>2, <1>3 DEF ManagersInv

\* Every step keeps the types.
LEMMA ManagersTypeStep ==
  ASSUME MaxSerial \in Nat \ {0}, None \notin Managers, ManagersTyped, [Wms!Next]_managersState
  PROVE ManagersTyped'
<1> USE DEF ManagersTyped, CompositorTypes, ManagerTypes, ChannelTypes
<1>1. CASE Wms!Notify
  <2>1. \A m \in Managers : Append(events[m], Wms!Msg("changed", notice.serial, notice.changes))
                              \in Seq(ManagerEvent)
    <3> SUFFICES ASSUME NEW m \in Managers
                 PROVE Append(events[m], Wms!Msg("changed", notice.serial, notice.changes))
                         \in Seq(ManagerEvent)
      OBVIOUS
    <3>1. Wms!Msg("changed", notice.serial, notice.changes) \in ManagerEvent
      BY DEF Wms!Msg, ManagerEvent
    <3> QED BY <3>1, EventAppended
  <2>2. ChannelTypes'
    BY <1>1, <2>1 DEF Wms!Notify
  <2>3. CompositorTypes' /\ ManagerTypes'
    BY <1>1 DEF Wms!Notify
  <2> QED BY <2>2, <2>3
<1>2. CASE \E k \in Kinds : Wms!Change(k)
  <2> PICK k \in Kinds : Wms!Change(k)
    BY <1>2
  <2>1. CompositorTypes'
    BY DEF Wms!Change, Wms!Emit
  <2>2. since' \in [Managers -> SUBSET Kinds]
    BY DEF Wms!Change
  <2> QED BY <2>1, <2>2 DEF Wms!Change
<1>3. CASE \E m \in Managers : Wms!Bind(m)
  BY <1>3 DEF Wms!Bind
<1>4. ASSUME NEW m \in managers, Wms!Gone(m) PROVE ManagersTyped'
  <2>1. CompositorTypes'
    BY <1>4 DEF Wms!Gone, Wms!Release, Wms!Nobody
  <2>2. ManagerTypes'
    BY <1>4 DEF Wms!Gone
  <2>3. ChannelTypes'
    BY <1>4 DEF Wms!Gone
  <2> QED BY <2>1, <2>2, <2>3
<1>5. ASSUME NEW m \in managers, Wms!Claim(m) \/ Wms!ReleasePolicy(m) PROVE ManagersTyped'
  <2>1. policy' = policy \/ policy' = Wms!Nobody \/ policy' = [owner |-> m, external |-> TRUE]
    BY <1>5 DEF Wms!Claim, Wms!ReleasePolicy, Wms!Release
  <2>2. policy' \in [owner : Managers \cup {None}, external : BOOLEAN]
    <3>1. Wms!Nobody \in [owner : Managers \cup {None}, external : BOOLEAN]
      BY DEF Wms!Nobody
    <3>2. [owner |-> m, external |-> TRUE] \in [owner : Managers \cup {None}, external : BOOLEAN]
      <4>1. m \in Managers
        OBVIOUS
      <4> QED BY <4>1
    <3>3. policy \in [owner : Managers \cup {None}, external : BOOLEAN]
      OBVIOUS
    <3> QED BY ONLY <2>1, <3>1, <3>2, <3>3
  <2> QED BY <1>5, <2>2 DEF Wms!Claim, Wms!ReleasePolicy
<1>6. ASSUME NEW m \in managers, Wms!AskState(m) PROVE ManagersTyped'
  <2>1. heard' \in [Managers -> 0..MaxSerial] /\ got' \in [Managers -> SUBSET Kinds]
    BY <1>6 DEF Wms!AskState
  <2> QED BY <1>6, <2>1 DEF Wms!AskState
<1>7. ASSUME NEW m \in managers, Wms!GetState(m) PROVE ManagersTyped'
  <2>1. Wms!Msg("state", notice.serial, {}) \in ManagerEvent
    BY DEF Wms!Msg, ManagerEvent
  <2>2. Append(events[m], Wms!Msg("state", notice.serial, {})) \in Seq(ManagerEvent)
    BY <2>1, EventAppended
  <2>3. ChannelTypes'
    BY <1>7, <2>2 DEF Wms!GetState
  <2> QED BY <1>7, <2>3 DEF Wms!GetState
<1>8. ASSUME NEW m \in managers, Wms!Hear(m) PROVE ManagersTyped'
  <2>1. Tail(events[m]) \in Seq(ManagerEvent) /\ Head(events[m]) \in ManagerEvent
    BY <1>8, EventRemoved DEF Wms!Hear
  <2>2. ChannelTypes'
    BY <1>8, <2>1 DEF Wms!Hear
  <2>3. Head(events[m]).serial \in 0..MaxSerial /\ Head(events[m]).kinds \subseteq Kinds
    BY <2>1 DEF ManagerEvent
  <2>4. heard' \in [Managers -> 0..MaxSerial] /\ got' \in [Managers -> SUBSET Kinds]
    BY <1>8, <2>3 DEF Wms!Hear
  <2> QED BY <1>8, <2>2, <2>4 DEF Wms!Hear
<1>9. CASE UNCHANGED managersState
  BY <1>9 DEF managersState
<1> QED BY <1>1, <1>2, <1>3, <1>4, <1>5, <1>6, <1>7, <1>8, <1>9 DEF Wms!Next

\* The policy has an owner after every step.
LEMMA OwnerStep ==
  ASSUME None \notin Managers, ManagerTypes, Wms!PolicyHasOwner, [Wms!Next]_managersState
  PROVE Wms!PolicyHasOwner'
<1> USE DEF ManagerTypes, Wms!PolicyHasOwner
<1>1. ASSUME NEW m \in managers, Wms!Claim(m) PROVE Wms!PolicyHasOwner'
  <2>1. policy'.owner = m /\ policy'.external = TRUE /\ managers' = managers
    BY <1>1 DEF Wms!Claim
  <2>2. m # None
    OBVIOUS
  <2> QED BY <2>1, <2>2
<1>6. ASSUME NEW m \in managers, Wms!Gone(m) \/ Wms!ReleasePolicy(m) PROVE Wms!PolicyHasOwner'
  <2>1. CASE policy.owner = m
    <3>1. policy'.owner = None /\ policy'.external = FALSE
      BY <1>6, <2>1 DEF Wms!Gone, Wms!ReleasePolicy, Wms!Release, Wms!Nobody
    <3> QED BY <3>1
  <2>2. CASE policy.owner # m
    <3>1. policy' = policy /\ managers' \in {managers, managers \ {m}}
      BY <1>6, <2>2 DEF Wms!Gone, Wms!ReleasePolicy, Wms!Release
    <3> QED BY <2>2, <3>1
  <2> QED BY <2>1, <2>2
<1>2. ASSUME NEW m \in managers, Wms!AskState(m) \/ Wms!GetState(m) \/ Wms!Hear(m) PROVE Wms!PolicyHasOwner'
  BY <1>2 DEF Wms!AskState, Wms!GetState, Wms!Hear
<1>3. CASE Wms!Notify \/ \E k \in Kinds : Wms!Change(k)
  BY <1>3 DEF Wms!Notify, Wms!Change
<1>4. CASE \E m \in Managers : Wms!Bind(m)
  BY <1>4 DEF Wms!Bind
<1>5. CASE UNCHANGED managersState
  BY <1>5 DEF managersState
<1> QED BY <1>1, <1>2, <1>3, <1>4, <1>5, <1>6 DEF Wms!Next

-----------------------------------------------------------------------------
(* What a manager will know, when its queue or what it was told changes. *)

LEMMA SameTold ==
  ASSUME NEW m \in Managers, events'[m] = events[m], got'[m] = got[m], heard'[m] = heard[m]
  PROVE Wms!Told(m)' = Wms!Told(m) /\ Wms!LastSerial(m)' = Wms!LastSerial(m)
BY DEF Wms!Told, Wms!LastSerial

LEMMA AppendedTold ==
  ASSUME NEW m \in Managers, events[m] \in Seq(ManagerEvent), NEW e \in ManagerEvent,
         events'[m] = Append(events[m], e), got'[m] = got[m]
  PROVE Wms!Told(m)' = Wms!Told(m) \cup e.kinds /\ Wms!LastSerial(m)' = e.serial
<1> DEFINE q == events[m]
           p == Append(q, e)
<1>1. /\ Len(p) = Len(q) + 1 /\ p[Len(q) + 1] = e /\ \A i \in DOMAIN q : p[i] = q[i]
      /\ DOMAIN p = DOMAIN q \cup {Len(q) + 1} /\ Len(q) \in Nat
  BY EventAppended
<1>2. p # <<>>
  BY <1>1, EmptySeq
<1>3. Wms!LastSerial(m)' = e.serial
  BY <1>1, <1>2 DEF Wms!LastSerial
<1>4. \A k : (\E i \in DOMAIN p : k \in p[i].kinds)
               <=> k \in e.kinds \/ \E i \in DOMAIN q : k \in q[i].kinds
  BY ONLY <1>1
<1>5. Wms!Told(m)' = Wms!Told(m) \cup e.kinds
  <2>1. /\ Wms!Told(m) = got[m] \cup UNION {q[i].kinds : i \in DOMAIN q}
        /\ Wms!Told(m)' = got[m] \cup UNION {p[i].kinds : i \in DOMAIN p}
    BY DEF Wms!Told
  <2> HIDE DEF p, q
  <2> QED BY <1>4, <2>1
<1> QED BY <1>3, <1>5

LEMMA HeardTold ==
  ASSUME NEW m \in Managers, events[m] \in Seq(ManagerEvent), events[m] # <<>>,
         events'[m] = Tail(events[m]), got'[m] = got[m] \cup Head(events[m]).kinds
  PROVE /\ Wms!Told(m)' = Wms!Told(m)
        /\ heard'[m] = Head(events[m]).serial => Wms!LastSerial(m)' = Wms!LastSerial(m)
<1> DEFINE q == events[m]
           p == Tail(q)
<1>1. /\ Len(q) \in Nat /\ Len(q) >= 1 /\ Len(p) = Len(q) - 1
      /\ DOMAIN q = 1..Len(q) /\ DOMAIN p = 1..Len(q) - 1
      /\ \A i \in 1..Len(q) - 1 : p[i] = q[i + 1]
      /\ Head(q) = q[1] /\ (p = <<>> <=> Len(q) = 1)
  BY EventRemoved
<1>2. ASSUME heard'[m] = Head(q).serial PROVE Wms!LastSerial(m)' = Wms!LastSerial(m)
  BY <1>1, <1>2 DEF Wms!LastSerial
<1>3. \A k : (\E i \in DOMAIN q : k \in q[i].kinds)
               <=> k \in q[1].kinds \/ \E i \in DOMAIN p : k \in p[i].kinds
  <2> TAKE k
  <2>1. ASSUME NEW i \in DOMAIN q, k \in q[i].kinds, i # 1
        PROVE \E j \in DOMAIN p : k \in p[j].kinds
    <3>1. i - 1 \in DOMAIN p /\ p[i - 1] = q[i]
      BY <1>1, <2>1
    <3> QED BY <2>1, <3>1
  <2>2. ASSUME NEW i \in DOMAIN p, k \in p[i].kinds
        PROVE \E j \in DOMAIN q : k \in q[j].kinds
    <3>1. i + 1 \in DOMAIN q /\ q[i + 1] = p[i]
      BY <1>1
    <3> QED BY <2>2, <3>1
  <2>3. 1 \in DOMAIN q
    BY <1>1
  <2> QED BY <2>1, <2>2, <2>3
<1>4. Wms!Told(m)' = Wms!Told(m)
  BY <1>1, <1>3 DEF Wms!Told
<1> QED BY <1>2, <1>4

-----------------------------------------------------------------------------
\* Every step keeps what a manager knows or will be told.
LEMMA KnownStep ==
  ASSUME MaxSerial \in Nat \ {0}, ManagersTyped, ManagersKnown, [Wms!Next]_managersState
  PROVE ManagersKnown'
<1> USE DEF ManagersKnown
<1> DEFINE Fine(m) == heard[m] # 0 /\ m \notin asking =>
                        /\ notice.pending \/ Wms!LastSerial(m) = notice.serial
                        /\ since[m] \subseteq Wms!Told(m) \cup notice.changes
<1>a. managers \subseteq Managers /\ \A m \in managers : m \in Managers /\ events[m] \in Seq(ManagerEvent)
  BY DEF ManagersTyped, ManagerTypes, ChannelTypes
<1>b. \A m \in managers : Fine(m)
  BY DEF Owed
<1>c. /\ heard \in [Managers -> 0..MaxSerial] /\ got \in [Managers -> SUBSET Kinds]
      /\ since \in [Managers -> SUBSET Kinds] /\ DOMAIN events = Managers
  BY DEF ManagersTyped, ManagerTypes, ChannelTypes
<1>1. CASE Wms!Notify
  <2> DEFINE e == Wms!Msg("changed", notice.serial, notice.changes)
  <2>1. e \in ManagerEvent /\ e.serial = notice.serial /\ e.kinds = notice.changes
    BY DEF Wms!Msg, ManagerEvent, ManagersTyped, CompositorTypes
  <2>2. \A m \in Managers \ managers : events'[m] = events[m]
    BY <1>1 DEF Wms!Notify
  <2>3. Unbound'
    BY <1>1, <2>2 DEF Wms!Notify, Unbound
  <2>4. NothingGathered' /\ notice'.serial = notice.serial /\ notice'.changes = {}
    BY <1>1 DEF Wms!Notify, NothingGathered, ManagersTyped, CompositorTypes
  <2>5. ASSUME NEW m \in managers PROVE Fine(m)'
    <3>1. events'[m] = Append(events[m], e) /\ got'[m] = got[m]
      BY <1>1, <1>a DEF Wms!Notify
    <3>2. Wms!Told(m)' = Wms!Told(m) \cup notice.changes /\ Wms!LastSerial(m)' = notice.serial
      BY <1>a, <2>1, <3>1, AppendedTold
    <3>3. Fine(m) /\ heard' = heard /\ since' = since /\ asking' = asking
      BY <1>1, <1>b DEF Wms!Notify
    <3> QED BY <2>4, <3>2, <3>3
  <2> QED BY <1>1, <2>3, <2>4, <2>5 DEF Owed, Wms!Notify
<1>2. CASE \E k \in Kinds : Wms!Change(k)
  <2> PICK k \in Kinds : Wms!Change(k)
    BY <1>2
  <2>1. Unbound'
    BY DEF Wms!Change, Unbound
  <2>2. notice'.pending = TRUE /\ notice'.changes = notice.changes \cup {k}
    BY DEF Wms!Change, Wms!Emit
  <2>3. NothingGathered'
    BY <2>2 DEF NothingGathered
  <2>4. ASSUME NEW m \in managers PROVE Fine(m)'
    <3>1. Wms!Told(m)' = Wms!Told(m)
      BY <1>a, SameTold DEF Wms!Change
    <3>2. since'[m] = since[m] \cup {k}
      BY <1>a DEF Wms!Change
    <3>3. Fine(m) /\ heard' = heard /\ asking' = asking
      BY <1>b DEF Wms!Change
    <3> QED BY <2>2, <3>1, <3>2, <3>3
  <2> QED BY <2>1, <2>3, <2>4 DEF Owed, Wms!Change
<1>3. CASE \E m \in Managers : Wms!Bind(m)
  <2> PICK n \in Managers : Wms!Bind(n)
    BY <1>3
  <2>1. Unbound' /\ NothingGathered'
    BY DEF Wms!Bind, Unbound, NothingGathered
  <2>2. heard[n] = 0
    BY DEF Wms!Bind, Unbound
  <2>3. ASSUME NEW m \in managers \cup {n} PROVE Fine(m)'
    <3>1. CASE m = n
      BY <2>2, <3>1 DEF Wms!Bind
    <3>2. CASE m \in managers
      <4>1. Wms!Told(m)' = Wms!Told(m) /\ Wms!LastSerial(m)' = Wms!LastSerial(m)
        BY <1>a, <3>2, SameTold DEF Wms!Bind
      <4> QED BY <1>b, <3>2, <4>1 DEF Wms!Bind
    <3> QED BY <3>1, <3>2
  <2> QED BY <2>1, <2>3 DEF Owed, Wms!Bind
<1>4. ASSUME NEW n \in managers, Wms!Gone(n) PROVE ManagersKnown'
  <2>1. NothingGathered'
    BY <1>4 DEF Wms!Gone, NothingGathered
  <2>2. \A m \in Managers : m # n =>
          events'[m] = events[m] /\ heard'[m] = heard[m] /\ got'[m] = got[m] /\ since'[m] = since[m]
    BY <1>4, <1>c DEF Wms!Gone
  <2>3. heard'[n] = 0 /\ events'[n] = <<>>
    BY <1>4, <1>a, <1>c DEF Wms!Gone
  <2>4. Unbound'
    BY <1>4, <2>2, <2>3 DEF Wms!Gone, Unbound
  <2>5. ASSUME NEW m \in managers \ {n} PROVE Fine(m)'
    <3>1. Wms!Told(m)' = Wms!Told(m) /\ Wms!LastSerial(m)' = Wms!LastSerial(m)
      BY <1>a, <2>2, SameTold
    <3>2. Fine(m) /\ heard'[m] = heard[m] /\ since'[m] = since[m]
      BY <1>a, <1>b, <2>2
    <3>3. notice' = notice /\ (m \in asking' <=> m \in asking)
      BY <1>4 DEF Wms!Gone
    <3> QED BY <3>1, <3>2, <3>3
  <2> QED BY <1>4, <2>1, <2>4, <2>5 DEF Wms!Gone, Owed
<1>5. ASSUME UNCHANGED <<managers, notice, asking, events, heard, got, since>> PROVE ManagersKnown'
  BY <1>5 DEF Unbound, NothingGathered, Owed, Wms!Told, Wms!LastSerial
<1>6. ASSUME NEW n \in managers, Wms!AskState(n) PROVE ManagersKnown'
  <2>1. Unbound' /\ NothingGathered'
    BY <1>6, <1>c DEF Wms!AskState, Unbound, NothingGathered
  <2>2. ASSUME NEW m \in managers, m # n PROVE Fine(m)'
    <3>1. events'[m] = events[m] /\ heard'[m] = heard[m] /\ got'[m] = got[m]
      BY <1>6, <1>a, <1>c, <2>2 DEF Wms!AskState
    <3>2. Wms!Told(m)' = Wms!Told(m) /\ Wms!LastSerial(m)' = Wms!LastSerial(m)
      BY <1>a, <3>1, SameTold
    <3>3. Fine(m) /\ since' = since /\ notice' = notice /\ (m \in asking' <=> m \in asking)
      BY <1>6, <1>b, <2>2 DEF Wms!AskState
    <3> QED BY <3>1, <3>2, <3>3
  <2>3. n \in asking'
    BY <1>6 DEF Wms!AskState
  <2> QED BY <1>6, <2>1, <2>2, <2>3 DEF Wms!AskState, Owed
<1>7. ASSUME NEW n \in managers, Wms!GetState(n) PROVE ManagersKnown'
  <2> DEFINE e == Wms!Msg("state", notice.serial, {})
  <2>0. e \in ManagerEvent /\ e.serial = notice.serial
    BY DEF Wms!Msg, ManagerEvent, ManagersTyped, CompositorTypes
  <2>1. Unbound' /\ NothingGathered'
    BY <1>7, <1>c DEF Wms!GetState, Unbound, NothingGathered
  <2>2. ASSUME NEW m \in managers, m # n PROVE Fine(m)'
    <3>1. events'[m] = events[m] /\ since'[m] = since[m]
      BY <1>7, <1>a, <1>c, <2>2 DEF Wms!GetState
    <3>2. Wms!Told(m)' = Wms!Told(m) /\ Wms!LastSerial(m)' = Wms!LastSerial(m)
      BY <1>7, <1>a, <3>1, SameTold DEF Wms!GetState
    <3>3. Fine(m) /\ heard' = heard /\ notice' = notice /\ (m \in asking' <=> m \in asking)
      BY <1>7, <1>b, <2>2 DEF Wms!GetState
    <3> QED BY <3>1, <3>2, <3>3
  <2>3. Fine(n)'
    <3>1. events'[n] = Append(events[n], e) /\ got'[n] = got[n] /\ since'[n] = {}
      BY <1>7, <1>a, <1>c DEF Wms!GetState
    <3>2. Wms!LastSerial(n)' = notice.serial
      BY <1>a, <2>0, <3>1, AppendedTold
    <3> QED BY <1>7, <3>1, <3>2 DEF Wms!GetState
  <2> QED BY <1>7, <2>1, <2>2, <2>3 DEF Wms!GetState, Owed
<1>8. ASSUME NEW n \in managers, Wms!Hear(n) PROVE ManagersKnown'
  <2>1. Unbound' /\ NothingGathered'
    BY <1>8, <1>c DEF Wms!Hear, Unbound, NothingGathered
  <2>2. ASSUME NEW m \in managers, m # n PROVE Fine(m)'
    <3>1. events'[m] = events[m] /\ heard'[m] = heard[m] /\ got'[m] = got[m]
      BY <1>8, <1>a, <1>c, <2>2 DEF Wms!Hear
    <3>2. Wms!Told(m)' = Wms!Told(m) /\ Wms!LastSerial(m)' = Wms!LastSerial(m)
      BY <1>a, <3>1, SameTold
    <3>3. Fine(m) /\ since' = since /\ notice' = notice /\ asking' = asking
      BY <1>8, <1>b DEF Wms!Hear
    <3> QED BY <3>1, <3>2, <3>3
  <2>3. Fine(n)'
    <3>1. /\ events[n] # <<>> /\ events'[n] = Tail(events[n])
          /\ got'[n] = got[n] \cup Head(events[n]).kinds
          /\ heard'[n] = IF heard[n] # 0 THEN Head(events[n]).serial ELSE heard[n]
      BY <1>8, <1>a, <1>c DEF Wms!Hear
    <3>2. /\ Wms!Told(n)' = Wms!Told(n)
          /\ heard'[n] = Head(events[n]).serial => Wms!LastSerial(n)' = Wms!LastSerial(n)
      BY <1>a, <3>1, HeardTold
    <3>3. Fine(n) /\ since' = since /\ notice' = notice /\ asking' = asking
      BY <1>8, <1>b DEF Wms!Hear
    <3> QED BY <3>1, <3>2, <3>3
  <2> QED BY <1>8, <2>1, <2>2, <2>3 DEF Wms!Hear, Owed
<1>9. CASE UNCHANGED managersState
  BY <1>5, <1>9 DEF managersState
<1>10. ASSUME NEW n \in managers, Wms!Claim(n) \/ Wms!ReleasePolicy(n) PROVE ManagersKnown'
  BY <1>5, <1>10 DEF Wms!Claim, Wms!ReleasePolicy
<1> QED BY <1>1, <1>2, <1>3, <1>4, <1>6, <1>7, <1>8, <1>9, <1>10 DEF Wms!Next

-----------------------------------------------------------------------------
\* Serials in a queue and beyond stay in order when one is added or read.
LEMMA SerialStep ==
  ASSUME MaxSerial \in Nat \ {0}, ManagersTyped, SerialInv, [Wms!Next]_managersState
  PROVE SerialInv'
<1> USE DEF SerialInv
<1> DEFINE Behind(m) == /\ heard[m] <= notice.serial
                        /\ \A i \in DOMAIN events[m] : events[m][i].serial <= notice.serial
           InOrder(m) == \A i \in DOMAIN events[m] :
                           /\ heard[m] <= events[m][i].serial
                           /\ \A j \in DOMAIN events[m] :
                                i < j => events[m][i].serial <= events[m][j].serial
<1>a. managers \subseteq Managers /\ \A m \in Managers : events[m] \in Seq(ManagerEvent)
  BY DEF ManagersTyped, ManagerTypes, ChannelTypes
<1>b. \A m \in Managers : Behind(m) /\ InOrder(m)
  BY DEF NotAhead, Ordered
<1>c. /\ heard \in [Managers -> 0..MaxSerial] /\ DOMAIN events = Managers
      /\ notice.serial \in 1..MaxSerial
  BY DEF ManagersTyped, CompositorTypes, ManagerTypes, ChannelTypes
<1>d. \A m \in Managers : \A i \in DOMAIN events[m] : events[m][i].serial \in Nat
  <2> TAKE m \in Managers
  <2> TAKE i \in DOMAIN events[m]
  <2>1. events[m][i] \in ManagerEvent
    BY <1>a, LenProperties, ElementOfSeq
  <2> QED BY <2>1 DEF ManagerEvent
<1>e. \A m \in Managers : heard[m] \in Nat
  BY <1>c
\* A queue that is as it was.
<1>f. ASSUME NEW m \in Managers, events'[m] = events[m], heard'[m] = heard[m],
             notice'.serial = notice.serial
      PROVE Behind(m)' /\ InOrder(m)'
  BY <1>b, <1>f
\* A queue with one event of now at its end.
<1>g. ASSUME NEW m \in Managers, NEW e \in ManagerEvent, e.serial = notice.serial,
             events'[m] = Append(events[m], e), heard'[m] = heard[m], notice'.serial = notice.serial
      PROVE Behind(m)' /\ InOrder(m)'
  <2> DEFINE q == events[m]
             p == Append(q, e)
  <2>1. /\ p[Len(q) + 1] = e /\ \A i \in DOMAIN q : p[i] = q[i]
        /\ DOMAIN p = DOMAIN q \cup {Len(q) + 1}
        /\ DOMAIN q = 1..Len(q) /\ Len(q) \in Nat
    BY <1>a, EventAppended
  <2>2. \A i \in DOMAIN p : p[i].serial <= notice.serial /\ heard[m] <= p[i].serial
    BY <1>b, <1>c, <1>g, <2>1
  <2>3. ASSUME NEW i \in DOMAIN p, NEW j \in DOMAIN p, i < j PROVE p[i].serial <= p[j].serial
    <3>1. i \in DOMAIN q
      BY <2>1, <2>3
    <3>2. CASE j \in DOMAIN q
      BY <1>b, <2>1, <2>3, <3>1, <3>2
    <3>3. CASE j = Len(q) + 1
      BY <1>b, <1>g, <2>1, <3>1, <3>3
    <3> QED BY <2>1, <3>2, <3>3
  <2>4. Behind(m)'
    BY <1>b, <1>g, <2>2
  <2>5. InOrder(m)'
    BY <1>g, <2>2, <2>3
  <2> QED BY <2>4, <2>5
<1>1. CASE Wms!Notify
  <2> DEFINE e == Wms!Msg("changed", notice.serial, notice.changes)
  <2>1. e \in ManagerEvent /\ e.serial = notice.serial
    BY DEF Wms!Msg, ManagerEvent, ManagersTyped, CompositorTypes
  <2>2. notice'.serial = notice.serial /\ heard' = heard
    BY <1>1 DEF Wms!Notify, ManagersTyped, CompositorTypes
  <2>3. \A m \in managers : Behind(m)' /\ InOrder(m)'
    BY <1>1, <1>a, <1>g, <2>1, <2>2 DEF Wms!Notify
  <2>4. \A m \in Managers \ managers : Behind(m)' /\ InOrder(m)'
    BY <1>1, <1>f, <2>2 DEF Wms!Notify
  <2> QED BY <2>3, <2>4 DEF NotAhead, Ordered
<1>2. CASE \E k \in Kinds : Wms!Change(k)
  <2> PICK k \in Kinds : Wms!Change(k)
    BY <1>2
  <2>1. notice'.serial = notice.serial + 1 /\ events' = events /\ heard' = heard
    BY DEF Wms!Change, Wms!Emit
  <2>2. \A m \in Managers : Behind(m)'
    BY <1>b, <1>c, <1>d, <1>e, <2>1
  <2>3. \A m \in Managers : InOrder(m)'
    BY <1>b, <2>1
  <2> QED BY <2>2, <2>3 DEF NotAhead, Ordered
<1>3. ASSUME NEW n \in managers, Wms!Gone(n) PROVE SerialInv'
  <2>1. \A m \in Managers : m # n => Behind(m)' /\ InOrder(m)'
    BY <1>3, <1>c, <1>f DEF Wms!Gone
  <2>2. heard'[n] = 0 /\ events'[n] = <<>> /\ notice' = notice
    BY <1>3, <1>a, <1>c DEF Wms!Gone
  <2>3. DOMAIN <<>> = {}
    OBVIOUS
  <2>4. Behind(n)' /\ InOrder(n)'
    BY <1>c, <2>2, <2>3
  <2> QED BY <2>1, <2>4 DEF NotAhead, Ordered
<1>4. ASSUME NEW n \in managers, Wms!AskState(n) PROVE SerialInv'
  <2>1. \A m \in Managers : m # n => Behind(m)' /\ InOrder(m)'
    BY <1>4, <1>c, <1>f DEF Wms!AskState
  <2>2. events' = events /\ notice' = notice /\ (heard'[n] = heard[n] \/ heard'[n] = 1)
    BY <1>4, <1>a, <1>c DEF Wms!AskState
  <2>3. \A i \in DOMAIN events[n] : events[n][i].serial >= 1
    <3> TAKE i \in DOMAIN events[n]
    <3>1. events[n][i] \in ManagerEvent
      BY <1>a, LenProperties, ElementOfSeq
    <3> QED BY <3>1 DEF ManagerEvent
  <2>4. Behind(n)' /\ InOrder(n)'
    BY <1>a, <1>b, <1>c, <2>2, <2>3
  <2> QED BY <2>1, <2>4 DEF NotAhead, Ordered
<1>5. ASSUME NEW n \in managers, Wms!GetState(n) PROVE SerialInv'
  <2> DEFINE e == Wms!Msg("state", notice.serial, {})
  <2>1. e \in ManagerEvent /\ e.serial = notice.serial
    BY DEF Wms!Msg, ManagerEvent, ManagersTyped, CompositorTypes
  <2>2. \A m \in Managers : m # n => Behind(m)' /\ InOrder(m)'
    BY <1>5, <1>c, <1>f DEF Wms!GetState
  <2>3. Behind(n)' /\ InOrder(n)'
    BY <1>5, <1>a, <1>c, <1>g, <2>1 DEF Wms!GetState
  <2> QED BY <2>2, <2>3 DEF NotAhead, Ordered
<1>6. ASSUME NEW n \in managers, Wms!Hear(n) PROVE SerialInv'
  <2> DEFINE q == events[n]
             p == Tail(q)
  <2>1. \A m \in Managers : m # n => Behind(m)' /\ InOrder(m)'
    BY <1>6, <1>c, <1>f DEF Wms!Hear
  <2>2. /\ q # <<>> /\ events'[n] = p /\ notice' = notice
        /\ heard'[n] = heard[n] \/ heard'[n] = Head(q).serial
    BY <1>6, <1>a, <1>c DEF Wms!Hear
  <2>3. /\ Len(q) \in Nat /\ DOMAIN q = 1..Len(q) /\ DOMAIN p = 1..Len(q) - 1
        /\ Len(q) >= 1 /\ Head(q) = q[1] /\ \A i \in 1..Len(q) - 1 : p[i] = q[i + 1]
    BY <1>a, <2>2, EventRemoved
  <2>4. heard'[n] <= notice.serial /\ \A i \in DOMAIN q : i > 1 => heard'[n] <= q[i].serial
    BY <1>a, <1>b, <2>2, <2>3
  <2>5. Behind(n)'
    BY <1>a, <1>b, <2>2, <2>3, <2>4
  <2>6. ASSUME NEW i \in DOMAIN p PROVE heard'[n] <= p[i].serial
    BY <2>3, <2>4
  <2>7. ASSUME NEW i \in DOMAIN p, NEW j \in DOMAIN p, i < j PROVE p[i].serial <= p[j].serial
    <3>1. i + 1 \in DOMAIN q /\ j + 1 \in DOMAIN q /\ i + 1 < j + 1
      BY <2>3, <2>7
    <3>2. q[i + 1].serial <= q[j + 1].serial
      BY <1>a, <1>b, <3>1
    <3> QED BY <2>3, <3>2
  <2>8. InOrder(n)'
    BY <2>2, <2>6, <2>7
  <2> QED BY <2>1, <2>5, <2>8 DEF NotAhead, Ordered
<1>7. ASSUME UNCHANGED <<notice, events, heard>> PROVE SerialInv'
  BY <1>7 DEF NotAhead, Ordered
<1>8. ASSUME NEW n \in Managers, Wms!Bind(n) PROVE SerialInv'
  BY <1>7, <1>8 DEF Wms!Bind
<1>9. ASSUME NEW n \in managers, Wms!Claim(n) \/ Wms!ReleasePolicy(n) PROVE SerialInv'
  BY <1>7, <1>9 DEF Wms!Claim, Wms!ReleasePolicy
<1>10. CASE UNCHANGED managersState
  BY <1>7, <1>10 DEF managersState
<1> QED BY <1>1, <1>2, <1>3, <1>4, <1>5, <1>6, <1>8, <1>9, <1>10 DEF Wms!Next

LEMMA ManagersStep ==
  ASSUME MaxSerial \in Nat \ {0}, None \notin Managers, ManagersInv, [Wms!Next]_managersState
  PROVE ManagersInv'
<1>1. ManagersTyped'
  BY ManagersTypeStep DEF ManagersInv
<1>2. ManagersKnown'
  BY KnownStep DEF ManagersInv
<1>3. SerialInv'
  BY SerialStep DEF ManagersInv
<1>4. Wms!PolicyHasOwner'
  BY OwnerStep DEF ManagersInv, ManagersTyped
<1> QED BY <1>1, <1>2, <1>3, <1>4 DEF ManagersInv

\* Nobody rests on an old state, reads back in time, or decides without a claim.
LEMMA ManagersSafe ==
  ManagersInv => Wms!TypeOK /\ Wms!NoChangeLost /\ Wms!SerialsGrow /\ Wms!PolicyHasOwner
<1> SUFFICES ASSUME ManagersInv
             PROVE Wms!TypeOK /\ Wms!NoChangeLost /\ Wms!SerialsGrow /\ Wms!PolicyHasOwner
  OBVIOUS
<1>1. Wms!TypeOK
  BY DEF ManagersInv, ManagersTyped, CompositorTypes, ManagerTypes, ChannelTypes, ManagerEvent,
         Wms!TypeOK
<1>2. Wms!NoChangeLost
  BY DEF ManagersInv, ManagersKnown, Owed, NothingGathered, Wms!NoChangeLost
<1>3. Wms!SerialsGrow
  BY DEF ManagersInv, ManagersTyped, ManagerTypes, SerialInv, Ordered, Wms!SerialsGrow
<1>4. Wms!PolicyHasOwner
  BY DEF ManagersInv
<1> QED BY <1>1, <1>2, <1>3, <1>4

HIDE DEF managers, policy, notice, asking, events, heard, got, since

-----------------------------------------------------------------------------
(* The parts together: each behaviour is one of them. *)

PartsInv ==
  /\ part = "stream" => StreamInv
  /\ part = "capture" => CaptureInv
  /\ part = "portal" => PortalInv
  /\ part = "x display" => DisplayInv
  /\ part = "managers" => ManagersInv

\* A part's variables are the first of v1 .. v10.
LEMMA NothingMoves == PartsInv /\ UNCHANGED allVars => PartsInv'
<1> SUFFICES ASSUME PartsInv, UNCHANGED allVars PROVE PartsInv'
  OBVIOUS
<1>1. UNCHANGED part /\ UNCHANGED strVars /\ UNCHANGED capVars /\ UNCHANGED portalState
      /\ UNCHANGED displayState /\ UNCHANGED managersState
  BY DEF allVars, strVars, capVars, child, window, handles, frames, up, down, known, asked, portalState,
         displayState, at, lock, path, abstract, raced, managersState, managers, policy, notice, asking, events,
         heard, got, since
<1>2. CASE part = "stream"
  BY <1>1, <1>2, StreamStep, PartnersAssumption DEF PartsInv
<1>3. CASE part = "capture"
  BY <1>1, <1>3, CaptureStep, PartnersAssumption DEF PartsInv
<1>4. CASE part = "portal"
  BY <1>1, <1>4, PortalStep, PartnersAssumption DEF PartsInv
<1>5. CASE part = "x display"
  BY <1>1, <1>5, DisplayStep, PartnersAssumption DEF PartsInv, PartnersAssumption
<1>6. CASE part = "managers"
  BY <1>1, <1>6, ManagersStep, PartnersAssumption DEF PartsInv, PartnersAssumption
<1> QED BY <1>1, <1>2, <1>3, <1>4, <1>5, <1>6 DEF PartsInv

\* The invariants of the parts hold always, under PartnersAssumption, which every
\* step of the parts may use.
THEOREM PartsInvariance == PartnersSpec => []PartsInv
<1>1. PartnersInit => PartsInv
  <2> SUFFICES ASSUME PartnersInit PROVE PartsInv
    OBVIOUS
  <2>1. /\ part = "stream" => Str!Init
        /\ part = "capture" => Cap!Init
        /\ part = "portal" => Por!Init
        /\ part = "x display" => Xdi!Init
        /\ part = "managers" => Wms!Init
    BY DEF PartnersInit
  <2>2. LastDisplay \in Nat /\ MaxSerial \in Nat \ {0} /\ None \notin Managers
    BY PartnersAssumption DEF PartnersAssumption
  <2> QED BY <2>1, <2>2, StreamInit, CaptureInit, PortalStarts, DisplayInit, ManagersStart, PartnersAssumption DEF PartsInv
<1>2. PartsInv /\ [PartnersNext]_allVars => PartsInv'
  <2> SUFFICES ASSUME PartsInv, PartnersNext PROVE PartsInv'
    BY NothingMoves
  <2>1. /\ part' = part
        /\ part = "stream" => Str!Next
        /\ part = "capture" => Cap!Next
        /\ part = "portal" => Por!Next
        /\ part = "x display" => Xdi!Next
        /\ part = "managers" => Wms!Next
    BY DEF PartnersNext
  <2>2. LastDisplay \in Nat /\ None \notin Sessions /\ MaxSerial \in Nat \ {0} /\ None \notin Managers
    BY PartnersAssumption DEF PartnersAssumption
  <2>3. part = "stream" => StreamInv'
    BY <2>1, StreamStep, PartnersAssumption DEF PartsInv
  <2>4. part = "capture" => CaptureInv'
    BY <2>1, CaptureStep, PartnersAssumption DEF PartsInv
  <2>5. part = "portal" => PortalInv'
    BY <2>1, PortalStep, PartnersAssumption DEF PartsInv
  <2>6. part = "x display" => DisplayInv'
    BY <2>1, <2>2, DisplayStep DEF PartsInv
  <2>7. part = "managers" => ManagersInv'
    BY <2>1, <2>2, ManagersStep DEF PartsInv
  <2> QED BY <2>1, <2>3, <2>4, <2>5, <2>6, <2>7 DEF PartsInv
<1> QED BY <1>1, <1>2, PTL DEF PartnersSpec

\* The portal keeps its word to the applications, to the user, to the compositor and
\* to PipeWire: calls are answered once, frames belong to the one that waits for
\* them, nothing is shared that the user has not chosen, and a stream's memory is that
\* of its buffers (screencast_portal.cpp, capture_service.cpp, pipewire_stream.cpp).
\* Nothing is claimed of the source and the frames of a session that was made again
\* under its path while the 350 ms timer of the earlier one ran
\* (screencast_portal.cpp 206-210): that one is captured before its user chose.
THEOREM PortalIsSound == PartnersSpec => []PortalSound
<1>1. PartsInv => PortalSound
  BY StreamSound, CaptureSound, PortalSafe, PartnersAssumption DEF PartsInv, PortalSound
<1> QED BY <1>1, PartsInvariance, PTL

\* Two sessions never serve the same display, in however many steps they race for it
\* and whichever of them or of their servers ends; and a session that keeps a number,
\* also after its server ended, has that number's lock file, alone, unless a lock was
\* removed there that had been stale only when it was looked at
\* (xwayland_spawn.cpp 84-177, compositor_server_xwayland.cpp 509-552 and 668-705).
THEOREM DisplaysExclusive == PartnersSpec => [](part = "x display" => Xdi!OneHolder)
<1>1. PartsInv => (part = "x display" => Xdi!OneHolder)
  BY DisplaySafe DEF PartsInv
<1> QED BY <1>1, PartsInvariance, PTL

\* A manager that asks again when it hears of a change never rests on an old
\* state (get_state and emit of window_manager_protocol.cpp).
THEOREM ChangesReachManagers == PartnersSpec => [](part = "managers" => Wms!NoChangeLost)
<1>1. PartsInv => (part = "managers" => Wms!NoChangeLost)
  BY ManagersSafe DEF PartsInv
<1> QED BY <1>1, PartsInvariance, PTL

\* What a manager reads never goes back in time: an answer is not overtaken by
\* the notice of an older change (window_manager_protocol.cpp).
THEOREM SerialsInOrder == PartnersSpec => [](part = "managers" => Wms!SerialsGrow)
<1>1. PartsInv => (part = "managers" => Wms!SerialsGrow)
  BY ManagersSafe DEF PartsInv
<1> QED BY <1>1, PartsInvariance, PTL

\* The compositor leaves decisions to a program exactly while one owns them:
\* claim, release and the death of the owner (claim_policy, release_policy).
THEOREM PolicyOwned == PartnersSpec => [](part = "managers" => Wms!PolicyHasOwner)
<1>1. PartsInv => (part = "managers" => Wms!PolicyHasOwner)
  BY ManagersSafe DEF PartsInv
<1> QED BY <1>1, PartsInvariance, PTL

\* The state of every part has its type: the X displays, the portal's child, the
\* portal, its stream and the managers.
THEOREM PartnersTyped == PartnersSpec => []PartnersTypes
<1>1. PartsInv => PartnersTypes
  BY StreamSound, CaptureSound, PortalTypes, DisplaySafe, ManagersSafe, PartnersAssumption
     DEF PartsInv, PartnersTypes
<1> QED BY <1>1, PartsInvariance, PTL
=============================================================================
