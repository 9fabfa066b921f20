-------------------------- MODULE Services_proof --------------------------
(***************************************************************************)
(* The two services of the libraries, each for every value of its          *)
(* constants.                                                              *)
(*                                                                         *)
(* The event loop: what runs is what was reported, and what is meant to    *)
(* run once does not run again.  Types and NoStaleEvent are inductive as   *)
(* they stand.  OnceOnly is not: a handle that is still in a table must    *)
(* not have run yet, handles are not given out twice, and a timer counted  *)
(* as one-shot must be one.                                                *)
(*                                                                         *)
(* The object ids of a connection: the invariant follows the one object    *)
(* that has an id (Occupant).  What either side keeps and what is under    *)
(* way for the id all belongs to it, from the request that announces it to *)
(* the acknowledgement of its end.                                         *)
(***************************************************************************)
EXTENDS ServicesMC, TLAPS

-----------------------------------------------------------------------------
(* The event loop. *)

\* The types, the tables of the loop apart from what is under way.
TableTypes ==
  /\ fds \in [Fds -> 0 .. MaxSources]
  /\ timers \subseteq [handle : Handles, fd : Fds, oneShot : BOOLEAN]
  /\ idles \subseteq Handles
  /\ sources \in 0 .. MaxSources /\ nextHandle \in 1 .. MaxHandles + 1
  /\ running \in BOOLEAN /\ wake \in BOOLEAN
StepTypes ==
  /\ todo \subseteq Handles
  /\ phase \in {"setup", "idles", "wait", "batch", "exited"}
  /\ batch \subseteq [kind : {"fd", "timer", "wake"}, fd : Fds \cup {-1}, id : Nat]
  /\ current \in [kind : {"none", "fd", "timer", "idle"}, id : Nat, reported : Nat,
                  fd : Fds \cup {-1}]
KernelTypes ==
  /\ hot \subseteq 1 .. MaxSources /\ armed \subseteq Handles /\ expired \subseteq Handles
HistoryTypes ==
  /\ once \subseteq Handles /\ ran \in [Handles -> Nat]

\* Handles in use were given out, and so were those with a history.
GivenOut ==
  /\ \A h \in idles \cup once : h < nextHandle
  /\ \A t \in timers : t.handle < nextHandle
  /\ \A h \in Handles : h >= nextHandle => ran[h] = 0
\* Timers and idles do not share handles, and what must run once is removed first.
Distinct ==
  /\ \A t \in timers : t.handle \notin idles
  /\ \A t \in timers : t.handle \in once => t.oneShot
\* What is still in a table and must run once has not run.
NotYet ==
  /\ \A h \in once \cap idles : ran[h] = 0
  /\ \A t \in timers : t.handle \in once => ran[t.handle] = 0

TypeInv == TableTypes /\ StepTypes /\ KernelTypes /\ HistoryTypes
OnceInv == GivenOut /\ Distinct /\ NotYet /\ OnceOnly
IInv == TypeInv /\ NoStaleEvent /\ OnceInv

-----------------------------------------------------------------------------
LEMMA InitStep == Init => IInv
<1> SUFFICES ASSUME Init PROVE IInv
  OBVIOUS
<1> USE BoundsAssumption DEF Init, Handles
<1>1. TypeInv
  <2>1. TableTypes
    <3>1. fds \in [Fds -> 0 .. MaxSources]
      OBVIOUS
    <3>2. sources \in 0 .. MaxSources /\ nextHandle \in 1 .. MaxHandles + 1
      OBVIOUS
    <3> QED BY <3>1, <3>2 DEF TableTypes
  <2>2. StepTypes
    BY DEF StepTypes, NoCallback
  <2>3. KernelTypes /\ HistoryTypes
    BY DEF KernelTypes, HistoryTypes
  <2> QED BY <2>1, <2>2, <2>3 DEF TypeInv
<1>2. NoStaleEvent
  BY DEF NoStaleEvent, NoCallback
<1>3. OnceInv
  BY DEF OnceInv, GivenOut, Distinct, NotYet, OnceOnly
<1> QED BY <1>1, <1>2, <1>3 DEF IInv

\* What is reported and what was captured has its type.
LEMMA EventTypes ==
  ASSUME TypeInv
  PROVE  ReadyEvents \subseteq [kind : {"fd", "timer", "wake"}, fd : Fds \cup {-1}, id : Nat]
BY BoundsAssumption DEF TypeInv, TableTypes, ReadyEvents, Event, Handles

-----------------------------------------------------------------------------
(* The types, and what runs is what was reported. *)

LEMMA UserTypes ==
  ASSUME TypeInv, UserStep PROVE TypeInv'
<1> USE BoundsAssumption DEF TypeInv
<1>1. CASE AddFd
  BY <1>1 DEF AddFd, FreeFds, TableTypes, StepTypes, KernelTypes, HistoryTypes, kernelVars
<1>2. CASE AddTimer
  <2>1. nextHandle \in Handles /\ nextHandle + 1 \in 1 .. MaxHandles + 1
    BY <1>2 DEF AddTimer, TableTypes, Handles
  <2>2. PICK fd \in FreeFds, single \in BOOLEAN :
          /\ timers' = timers \cup {[handle |-> nextHandle, fd |-> fd, oneShot |-> single]}
          /\ armed' = IF single THEN armed \cup {nextHandle} ELSE armed
          /\ once' = IF single THEN once \cup {nextHandle} ELSE once
    BY <1>2 DEF AddTimer
  <2>3. fd \in Fds
    BY DEF FreeFds
  <2>4. TableTypes'
    BY <1>2, <2>1, <2>2, <2>3 DEF AddTimer, TableTypes
  <2>5. KernelTypes' /\ HistoryTypes' /\ StepTypes'
    BY <1>2, <2>1, <2>2 DEF AddTimer, KernelTypes, HistoryTypes, StepTypes
  <2> QED BY <2>4, <2>5
<1>3. CASE UpdateTimer
  BY <1>3 DEF UpdateTimer, TimerHandles, loopVars, TableTypes, StepTypes, KernelTypes, HistoryTypes
<1>4. CASE AddIdle
  BY <1>4 DEF AddIdle, WakeAfterAdd, kernelVars, TableTypes, StepTypes, KernelTypes, HistoryTypes, Handles
<1>5. CASE RemoveFd
  <2>1. PICK fd \in Fds : fds' = [fds EXCEPT ![fd] = 0] /\ hot' = hot \ {fds[fd]}
    BY <1>5 DEF RemoveFd
  <2>2. fds' \in [Fds -> 0 .. MaxSources]
    BY <2>1 DEF TableTypes
  <2> QED BY <1>5, <2>1, <2>2 DEF RemoveFd, TableTypes, StepTypes, KernelTypes, HistoryTypes
<1>6. CASE RemoveTimer
  BY <1>6 DEF RemoveTimer, ForgetTimer, TableTypes, StepTypes, KernelTypes, HistoryTypes
<1>7. CASE RemoveIdle
  BY <1>7 DEF RemoveIdle, kernelVars, TableTypes, StepTypes, KernelTypes, HistoryTypes
<1>8. CASE Stop
  BY <1>8 DEF Stop, kernelVars, TableTypes, StepTypes, KernelTypes, HistoryTypes
<1> QED BY <1>1, <1>2, <1>3, <1>4, <1>5, <1>6, <1>7, <1>8 DEF UserStep

LEMMA LoopTypes ==
  ASSUME TypeInv, Run \/ LoopStep PROVE TypeInv'
<1> USE BoundsAssumption DEF TypeInv
<1>1. CASE Run
  BY <1>1 DEF Run, kernelVars, TableTypes, StepTypes, KernelTypes, HistoryTypes
<1>2. CASE RunIdle
  <2>1. PICK h \in todo :
          /\ todo' = todo \ {h} /\ idles' = idles \ {h}
          /\ IF h \in idles
               THEN current' = Callback("idle", h, h, -1) /\ ran' = [ran EXCEPT ![h] = @ + 1]
               ELSE UNCHANGED <<current, ran>>
    BY <1>2 DEF RunIdle
  <2>2. UNCHANGED <<fds, timers, sources, nextHandle, running, wake, phase, batch, kernelVars, once>>
    BY <1>2 DEF RunIdle
  <2>3. h \in Handles /\ h \in Nat
    BY DEF StepTypes, Handles
  <2>4. StepTypes'
    BY <2>1, <2>2, <2>3 DEF StepTypes, Callback
  <2>5. HistoryTypes'
    BY <2>1, <2>2, <2>3 DEF HistoryTypes
  <2> QED BY <2>1, <2>2, <2>4, <2>5 DEF kernelVars, TableTypes, KernelTypes
<1>3. CASE IdlesDone
  BY <1>3 DEF IdlesDone, loopVars, kernelVars, TableTypes, StepTypes, KernelTypes, HistoryTypes
<1>4. CASE Wait
  BY <1>4, EventTypes DEF Wait, loopVars, kernelVars, TableTypes, StepTypes, KernelTypes, HistoryTypes
<1>5. CASE DrainWake
  BY <1>5 DEF DrainWake, kernelVars, TableTypes, StepTypes, KernelTypes, HistoryTypes
<1>6. CASE RunTimer
  <2>1. PICK e \in batch :
          /\ batch' = batch \ {e}
          /\ IF TimerFires(e)
               THEN /\ current' = Callback("timer", e.id, e.id, e.fd)
                    /\ ran' = IF e.id \in once THEN [ran EXCEPT ![e.id] = @ + 1] ELSE ran
                    /\ IF RemovedFirst(e.id)
                         THEN ForgetTimer(e.id)
                         ELSE expired' = expired \ {e.id} /\ UNCHANGED <<timers, armed>>
               ELSE UNCHANGED <<current, ran, timers, armed, expired>>
    BY <1>6 DEF RunTimer
  <2>2. UNCHANGED <<fds, idles, sources, nextHandle, running, wake, phase, todo, hot, once>>
    BY <1>6 DEF RunTimer
  <2>3. StepTypes'
    BY <2>1, <2>2 DEF StepTypes, Callback
  <2>4. TableTypes' /\ KernelTypes'
    BY <2>1, <2>2 DEF TableTypes, KernelTypes, ForgetTimer
  <2>5. HistoryTypes'
    BY <2>1, <2>2 DEF HistoryTypes
  <2> QED BY <2>3, <2>4, <2>5
<1>7. CASE RunFd
  <2>1. PICK e \in batch :
          /\ e.kind = "fd" /\ batch' = batch \ {e}
          /\ IF SameSource(e)
               THEN /\ current' = Callback("fd", fds[e.fd], e.id, e.fd)
                    /\ hot' \in {hot, hot \ {fds[e.fd]}}
               ELSE UNCHANGED <<current, hot>>
    BY <1>7 DEF RunFd
  <2>2. UNCHANGED <<loopVars, phase, todo, armed, expired, once, ran>>
    BY <1>7 DEF RunFd
  <2>3. StepTypes'
    BY <2>1, <2>2 DEF StepTypes, SameSource, Callback
  <2> QED BY <2>1, <2>2, <2>3 DEF loopVars, TableTypes, KernelTypes, HistoryTypes
<1>8. CASE BatchDone
  BY <1>8 DEF BatchDone, loopVars, kernelVars, TableTypes, StepTypes, KernelTypes, HistoryTypes
<1> QED BY <1>1, <1>2, <1>3, <1>4, <1>5, <1>6, <1>7, <1>8 DEF LoopStep

LEMMA OtherTypes ==
  ASSUME TypeInv, Return \/ ReturnFalse \/ Readable \/ Expire PROVE TypeInv'
<1> USE BoundsAssumption DEF TypeInv
<1>1. CASE Return
  BY <1>1 DEF Return, NoCallback, loopVars, kernelVars, TableTypes, StepTypes, KernelTypes, HistoryTypes
<1>2. CASE ReturnFalse
  <2>1. /\ fds' = [fd \in Fds |-> IF fd \in OwnFds THEN 0 ELSE fds[fd]]
        /\ hot' = hot \ {current.id} /\ current' = NoCallback
        /\ UNCHANGED <<timers, idles, sources, nextHandle, running, wake,
                       phase, todo, batch, armed, expired, once, ran>>
    BY <1>2 DEF ReturnFalse
  <2>2. fds' \in [Fds -> 0 .. MaxSources]
    BY <2>1 DEF TableTypes
  <2>3. NoCallback \in [kind : {"none", "fd", "timer", "idle"}, id : Nat, reported : Nat,
                        fd : Fds \cup {-1}]
    BY DEF NoCallback
  <2> QED BY <2>1, <2>2, <2>3 DEF TableTypes, StepTypes, KernelTypes, HistoryTypes
<1>3. CASE Readable
  <2>1. PICK fd \in Fds : fds[fd] # 0 /\ hot' = hot \cup {fds[fd]}
    BY <1>3 DEF Readable
  <2>2. fds[fd] \in 1 .. MaxSources
    BY <2>1 DEF TableTypes
  <2> QED BY <1>3, <2>1, <2>2 DEF Readable, loopVars, TableTypes, StepTypes, KernelTypes, HistoryTypes
<1>4. CASE Expire
  BY <1>4 DEF Expire, loopVars, TableTypes, StepTypes, KernelTypes, HistoryTypes
<1> QED BY <1>1, <1>2, <1>3, <1>4

\* A callback is set by three steps only, each with what its event was reported for.
LEMMA ReportedRuns ==
  ASSUME NoStaleEvent, Next PROVE NoStaleEvent'
<1> USE DEF NoStaleEvent
<1>1. CASE UserStep
  BY <1>1 DEF UserStep, AddFd, AddTimer, UpdateTimer, AddIdle, RemoveFd, RemoveTimer, RemoveIdle, Stop
<1>2. CASE Run \/ IdlesDone \/ Wait \/ DrainWake \/ BatchDone \/ Readable \/ Expire
  BY <1>2 DEF Run, IdlesDone, Wait, DrainWake, BatchDone, Readable, Expire
<1>3. CASE Return \/ ReturnFalse
  BY <1>3 DEF Return, ReturnFalse, NoCallback
<1>4. CASE RunIdle
  BY <1>4 DEF RunIdle, Callback
<1>5. CASE RunTimer
  BY <1>5 DEF RunTimer, Callback
<1>6. CASE RunFd
  BY <1>6 DEF RunFd, Callback, SameSource
<1> QED BY <1>1, <1>2, <1>3, <1>4, <1>5, <1>6 DEF Next, LoopStep

-----------------------------------------------------------------------------
(* What must run once. *)

\* A step that gives out no handle, runs nothing counted and at most removes from the
\* tables leaves the counts as they have to be.
LEMMA NothingRuns ==
  ASSUME OnceInv, idles' \subseteq idles, timers' \subseteq timers,
         nextHandle' = nextHandle, once' = once, ran' = ran
  PROVE  OnceInv'
BY DEF OnceInv, GivenOut, Distinct, NotYet, OnceOnly

LEMMA AddTimerOnce ==
  ASSUME TypeInv, OnceInv, AddTimer PROVE OnceInv'
<1> USE BoundsAssumption
<1>1. PICK t \in [handle : {nextHandle}, fd : Fds, oneShot : BOOLEAN] :
        /\ timers' = timers \cup {t}
        /\ once' = IF t.oneShot THEN once \cup {nextHandle} ELSE once
  <2>1. PICK fd \in FreeFds, single \in BOOLEAN :
          /\ timers' = timers \cup {[handle |-> nextHandle, fd |-> fd, oneShot |-> single]}
          /\ once' = IF single THEN once \cup {nextHandle} ELSE once
    BY DEF AddTimer
  <2> DEFINE u == [handle |-> nextHandle, fd |-> fd, oneShot |-> single]
  <2>2. u \in [handle : {nextHandle}, fd : Fds, oneShot : BOOLEAN] /\ u.oneShot = single
    BY DEF FreeFds
  <2> QED BY <2>1, <2>2
<1>2. nextHandle \in Handles /\ nextHandle' = nextHandle + 1 /\ UNCHANGED <<idles, ran>>
  BY DEF AddTimer, TypeInv, TableTypes, Handles
<1>3. ran[nextHandle] = 0 /\ nextHandle \notin once /\ nextHandle \notin idles
      /\ \A u \in timers : u.handle # nextHandle
  BY <1>2 DEF OnceInv, GivenOut, TypeInv, TableTypes, HistoryTypes, Handles
<1>4. \A h \in Handles : h \in Nat
  BY DEF Handles
<1>5. GivenOut'
  <2>1. /\ nextHandle \in Nat /\ t.handle = nextHandle
        /\ idles \subseteq Handles /\ once \subseteq Handles
        /\ \A u \in timers : u.handle \in Nat
    BY DEF TypeInv, TableTypes, HistoryTypes, Handles
  <2>2. \A h \in idles' \cup once' : h < nextHandle'
    BY <1>1, <1>2, <1>4, <2>1 DEF OnceInv, GivenOut
  <2>3. \A u \in timers' : u.handle < nextHandle'
    BY <1>1, <1>2, <1>4, <2>1 DEF OnceInv, GivenOut
  <2>4. \A h \in Handles : h >= nextHandle' => ran'[h] = 0
    BY <1>2, <1>4, <2>1 DEF OnceInv, GivenOut
  <2> QED BY <2>2, <2>3, <2>4 DEF GivenOut
<1>6. Distinct'
  BY <1>1, <1>2, <1>3 DEF OnceInv, Distinct
<1>7. NotYet'
  BY <1>1, <1>2, <1>3 DEF OnceInv, NotYet
<1>8. OnceOnly'
  BY <1>1, <1>2, <1>3 DEF OnceInv, OnceOnly
<1> QED BY <1>5, <1>6, <1>7, <1>8 DEF OnceInv

LEMMA AddIdleOnce ==
  ASSUME TypeInv, OnceInv, AddIdle PROVE OnceInv'
<1> USE BoundsAssumption
<1>1. /\ idles' = idles \cup {nextHandle} /\ once' = once \cup {nextHandle}
      /\ nextHandle' = nextHandle + 1 /\ UNCHANGED <<timers, ran>> /\ nextHandle \in Handles
  BY DEF AddIdle, TypeInv, TableTypes, Handles
<1>2. ran[nextHandle] = 0 /\ \A u \in timers : u.handle # nextHandle
  BY <1>1 DEF OnceInv, GivenOut, TypeInv, TableTypes, Handles
<1>3. \A h \in Handles : h \in Nat
  BY DEF Handles
<1>4. GivenOut'
  <2>1. /\ nextHandle \in Nat /\ idles \subseteq Handles /\ once \subseteq Handles
        /\ \A u \in timers : u.handle \in Nat
    BY DEF TypeInv, TableTypes, HistoryTypes, Handles
  <2>2. \A h \in idles' \cup once' : h < nextHandle'
    BY <1>1, <1>3, <2>1 DEF OnceInv, GivenOut
  <2>3. \A u \in timers' : u.handle < nextHandle'
    BY <1>1, <1>3, <2>1 DEF OnceInv, GivenOut
  <2>4. \A h \in Handles : h >= nextHandle' => ran'[h] = 0
    BY <1>1, <1>3, <2>1 DEF OnceInv, GivenOut
  <2> QED BY <2>2, <2>3, <2>4 DEF GivenOut
<1>5. Distinct' /\ NotYet'
  BY <1>1, <1>2 DEF OnceInv, Distinct, NotYet
<1>6. OnceOnly'
  BY <1>1, <1>2 DEF OnceInv, OnceOnly
<1> QED BY <1>4, <1>5, <1>6 DEF OnceInv

LEMMA RunIdleOnce ==
  ASSUME TypeInv, OnceInv, RunIdle PROVE OnceInv'
<1>1. PICK h \in todo :
        /\ idles' = idles \ {h}
        /\ IF h \in idles THEN ran' = [ran EXCEPT ![h] = @ + 1] ELSE ran' = ran
  BY DEF RunIdle
<1>2. UNCHANGED <<timers, nextHandle, once>>
  BY DEF RunIdle
<1>3. CASE h \notin idles
  BY <1>1, <1>2, <1>3, NothingRuns
<1>4. CASE h \in idles
  <2>1. ran' = [ran EXCEPT ![h] = @ + 1] /\ h \in Handles /\ h < nextHandle
    BY <1>1, <1>4 DEF TypeInv, TableTypes, OnceInv, GivenOut
  <2>2. /\ ran \in [Handles -> Nat] /\ ran'[h] = ran[h] + 1
        /\ \A g \in Handles \ {h} : ran'[g] = ran[g]
    BY <2>1 DEF TypeInv, HistoryTypes
  <2>3. once \subseteq Handles /\ \A t \in timers : t.handle \in Handles
    BY DEF TypeInv, HistoryTypes, TableTypes
  <2>4. \A t \in timers : t.handle # h
    BY <1>4 DEF OnceInv, Distinct
  <2>5. GivenOut'
    <3>1. \A g \in Handles : g >= nextHandle => g # h
      BY <2>1 DEF TypeInv, TableTypes, Handles
    <3> QED BY <1>1, <1>2, <2>2, <3>1 DEF OnceInv, GivenOut
  <2>6. Distinct'
    BY <1>1, <1>2 DEF OnceInv, Distinct
  <2>7. NotYet'
    BY <1>1, <1>2, <2>2, <2>3, <2>4 DEF OnceInv, NotYet
  <2>8. OnceOnly'
    BY <1>2, <1>4, <2>2, <2>3 DEF OnceInv, NotYet, OnceOnly
  <2> QED BY <2>5, <2>6, <2>7, <2>8 DEF OnceInv
<1> QED BY <1>3, <1>4

LEMMA RunTimerOnce ==
  ASSUME TypeInv, OnceInv, RunTimer PROVE OnceInv'
<1>1. PICK e \in batch :
        IF TimerFires(e)
          THEN /\ ran' = IF e.id \in once THEN [ran EXCEPT ![e.id] = @ + 1] ELSE ran
               /\ IF RemovedFirst(e.id) THEN ForgetTimer(e.id) ELSE UNCHANGED <<timers, armed>>
          ELSE UNCHANGED <<ran, timers>>
  BY DEF RunTimer
<1>2. UNCHANGED <<idles, nextHandle, once>>
  BY DEF RunTimer
<1>3. timers' \subseteq timers
  BY <1>1 DEF ForgetTimer
<1>4. CASE ran' = ran
  BY <1>2, <1>3, <1>4, NothingRuns
<1>5. CASE ran' # ran
  <2>1. TimerFires(e) /\ e.id \in once /\ ran' = [ran EXCEPT ![e.id] = @ + 1]
    BY <1>1, <1>5
  <2>2. PICK t \in timers : t.handle = e.id /\ t.fd = e.fd
    BY <2>1 DEF TimerFires, TimerStillThere
  <2>3. t.oneShot /\ ran[e.id] = 0 /\ e.id < nextHandle /\ e.id \notin idles
    BY <2>1, <2>2 DEF OnceInv, Distinct, NotYet, GivenOut
  <2>4. timers' = {u \in timers : u.handle # e.id}
    BY <1>1, <2>1, <2>2, <2>3 DEF RemovedFirst, OneShot, ForgetTimer
  <2>5. /\ e.id \in Handles /\ ran \in [Handles -> Nat] /\ ran'[e.id] = ran[e.id] + 1
        /\ \A g \in Handles \ {e.id} : ran'[g] = ran[g]
    BY <2>1 DEF TypeInv, HistoryTypes
  <2>6. once \subseteq Handles /\ \A u \in timers : u.handle \in Handles
    BY DEF TypeInv, HistoryTypes, TableTypes
  <2>7. GivenOut'
    <3>1. \A g \in Handles : g >= nextHandle => g # e.id
      BY <2>3, <2>5 DEF TypeInv, TableTypes, Handles
    <3> QED BY <1>2, <1>3, <2>5, <3>1 DEF OnceInv, GivenOut
  <2>8. Distinct'
    BY <1>2, <1>3 DEF OnceInv, Distinct
  <2>9. NotYet'
    BY <1>2, <2>3, <2>4, <2>5, <2>6 DEF OnceInv, NotYet
  <2>10. OnceOnly'
    BY <1>2, <2>3, <2>5, <2>6 DEF OnceInv, OnceOnly
  <2> QED BY <2>7, <2>8, <2>9, <2>10 DEF OnceInv
<1> QED BY <1>4, <1>5

LEMMA OnceStep ==
  ASSUME TypeInv, OnceInv, Next PROVE OnceInv'
<1>1. CASE AddTimer
  BY <1>1, AddTimerOnce
<1>2. CASE AddIdle
  BY <1>2, AddIdleOnce
<1>3. CASE RunIdle
  BY <1>3, RunIdleOnce
<1>4. CASE RunTimer
  BY <1>4, RunTimerOnce
<1>5. CASE AddFd \/ UpdateTimer \/ RemoveFd \/ RemoveTimer \/ RemoveIdle \/ Stop
  BY <1>5, NothingRuns
     DEF AddFd, UpdateTimer, RemoveFd, RemoveTimer, RemoveIdle, Stop, ForgetTimer, loopVars
<1>6. CASE Run \/ IdlesDone \/ Wait \/ DrainWake \/ RunFd \/ BatchDone
  BY <1>6, NothingRuns DEF Run, IdlesDone, Wait, DrainWake, RunFd, BatchDone, loopVars
<1>7. CASE Return \/ ReturnFalse \/ Readable \/ Expire
  BY <1>7, NothingRuns DEF Return, ReturnFalse, Readable, Expire, loopVars
<1> QED BY <1>1, <1>2, <1>3, <1>4, <1>5, <1>6, <1>7 DEF Next, UserStep, LoopStep

-----------------------------------------------------------------------------
LEMMA InductiveStep == IInv /\ [Next]_vars => IInv'
<1> SUFFICES ASSUME IInv, [Next]_vars PROVE IInv'
  OBVIOUS
<1>1. CASE UNCHANGED vars
  BY <1>1 DEF vars, loopVars, kernelVars, IInv, TypeInv, TableTypes, StepTypes, KernelTypes,
              HistoryTypes, NoStaleEvent, OnceInv, GivenOut, Distinct, NotYet, OnceOnly
<1>2. CASE Next
  <2>1. TypeInv'
    BY <1>2, UserTypes, LoopTypes, OtherTypes DEF Next, IInv
  <2>2. NoStaleEvent' /\ OnceInv'
    BY <1>2, ReportedRuns, OnceStep DEF IInv
  <2> QED BY <2>1, <2>2 DEF IInv
<1> QED BY <1>1, <1>2

\* Types, reported callbacks and the counts of runs are together inductive.
THEOREM Invariance == Spec => []IInv
<1> QED BY InitStep, InductiveStep, PTL DEF Spec

\* The tables, the batch and the kernel's side of the loop keep their types.
THEOREM TypeCorrect == Spec => []TypeOK
<1>1. IInv => TypeOK
  BY DEF IInv, TypeInv, TableTypes, StepTypes, KernelTypes, HistoryTypes, TypeOK
<1> QED BY <1>1, Invariance, PTL

\* Whatever callbacks register and remove within a batch, an event runs the callback it
\* was reported for, and idles and one-shot timers run once (event_loop.cpp 192-235).
THEOREM CallbacksDue == Spec => []CallbacksAreDue
<1>1. IInv => CallbacksAreDue
  BY DEF IInv, OnceInv, CallbacksAreDue
<1> QED BY <1>1, Invariance, PTL

\* A callback that returns false gives up the registration it was called for, also when
\* another one has its descriptor number by now (event_loop.cpp 231).
THEOREM OthersAreKept == Spec => OthersKept
<1>1. IInv /\ [Next]_vars =>
        [\A fd \in Fds : (fds'[fd] # fds[fd] /\ current.kind = "fd" /\ current' = NoCallback)
           => fds[fd] = current.id]_vars
  <2> SUFFICES ASSUME IInv, Next, NEW fd \in Fds, fds'[fd] # fds[fd], current.kind = "fd",
                      current' = NoCallback
               PROVE  fds[fd] = current.id
    OBVIOUS
  <2>1. current # NoCallback
    BY DEF NoCallback
  <2>2. CASE UserStep
    BY <2>1, <2>2 DEF UserStep, AddFd, AddTimer, UpdateTimer, AddIdle, RemoveFd, RemoveTimer,
                      RemoveIdle, Stop
  <2>3. CASE Run \/ LoopStep \/ Return \/ Readable \/ Expire
    BY <2>1, <2>3 DEF Run, LoopStep, RunIdle, IdlesDone, Wait, DrainWake, RunTimer, RunFd,
                      BatchDone, Return, Readable, Expire, loopVars
  <2>4. CASE ReturnFalse
    BY <2>4 DEF ReturnFalse, OwnFds, IInv, TypeInv, TableTypes
  <2> QED BY <2>2, <2>3, <2>4 DEF Next
<1> QED BY <1>1, Invariance, PTL DEF Spec, OthersKept

-----------------------------------------------------------------------------
(* The object ids. *)

Positions(queue) == 1 .. Len(queue)

RequestTypes == [op : {"new", "use", "destroy"}, id : I!Ids, obj : Nat \ {0}]
EventTypesOf ==
  [op : {"event", "new", "mention", "done", "delete"}, id : I!Ids, obj : Nat \ {0},
   fd : BOOLEAN, other : [id : I!Ids \cup {0}, obj : Nat]]

IdTypes ==
  /\ kind \in Seq({"normal", "once"}) /\ I!Made <= MaxObjects
  /\ proxies \in [I!Ids -> Nat] /\ zombies \in [ClientIds -> Nat]
  /\ deletedIds \subseteq ClientIds /\ resources \in [I!Ids -> Nat]
  /\ requests \in Seq(RequestTypes) /\ events \in Seq(EventTypesOf)
  /\ refused \in BOOLEAN /\ broken \in BOOLEAN

\* Every object that is named has been made.
OnlyMade ==
  /\ \A i \in I!Ids : proxies[i] <= I!Made /\ resources[i] <= I!Made
  /\ \A i \in ClientIds : zombies[i] <= I!Made
  /\ \A n \in Positions(requests) : requests[n].obj <= I!Made
  /\ \A n \in Positions(events) : events[n].obj <= I!Made /\ events[n].other.obj <= I!Made

\* Which ids messages may be about.
EventShapes ==
  \A n \in Positions(events) :
    /\ events[n].fd => events[n].id \in ClientIds
    /\ events[n].op = "delete" => events[n].id \in ClientIds /\ ~events[n].fd
    /\ events[n].op = "new" => events[n].other.id \in ServerIds /\ events[n].other.obj # 0

\* The request for a new object is the first of its id, the one that destroys it the
\* last, and so is the acknowledgement.
InOrder ==
  /\ \A m, n \in Positions(requests) :
       m < n /\ requests[m].id = requests[n].id =>
         requests[n].op # "new" /\ requests[m].op # "destroy"
  /\ \A m, n \in Positions(events) :
       m < n /\ events[m].id = events[n].id => events[m].op # "delete"

\* Only a normal object is used and destroyed by request.
Kinds ==
  /\ \A n \in Positions(requests) :
       requests[n].op # "new" => kind[requests[n].obj] = "normal"
  /\ \A j \in ServerIds :
       /\ proxies[j] # 0 => kind[proxies[j]] = "normal"
       /\ resources[j] # 0 => kind[resources[j]] = "normal"

Occupant(i) == IF proxies[i] # 0 THEN proxies[i] ELSE zombies[i]
Reqs(i) == {requests[n] : n \in {m \in Positions(requests) : requests[m].id = i}}
Evs(i) == {events[n] : n \in {m \in Positions(events) : events[m].id = i}}
Asked(i, op) == \E r \in Reqs(i) : r.op = op
Acknowledged(i) == \E e \in Evs(i) : e.op = "delete"

\* An id of the client: everything under way for it belongs to its occupant, ...
OneOccupant(i) ==
  /\ proxies[i] = 0 \/ zombies[i] = 0
  /\ \A r \in Reqs(i) : r.obj = Occupant(i)
  /\ \A e \in Evs(i) : e.obj = Occupant(i)
  /\ resources[i] \in {0, Occupant(i)}
\* ... which the server does not know yet, ...
Unborn(i) ==
  Asked(i, "new") => resources[i] = 0 /\ Evs(i) = {} /\ i \notin deletedIds
\* ... or knows, ...
Living(i) == resources[i] # 0 => ~Acknowledged(i) /\ i \notin deletedIds
\* ... or has ended: then the acknowledgement is under way or was seen.
Ended(i) ==
  Occupant(i) # 0 /\ resources[i] = 0 /\ ~Asked(i, "new") =>
    Reqs(i) = {} /\ (Acknowledged(i) \/ i \in deletedIds)
Seen(i) == i \in deletedIds => proxies[i] # 0 /\ Evs(i) = {}
\* A normal object ends by a request of the client, which gives up the proxy.
ByRequest(i) ==
  proxies[i] # 0 /\ kind[proxies[i]] = "normal" =>
    ~Asked(i, "destroy") /\ (Asked(i, "new") \/ resources[i] # 0)

ClientId(i) ==
  OneOccupant(i) /\ Unborn(i) /\ Living(i) /\ Ended(i) /\ Seen(i) /\ ByRequest(i)

\* An id of the server: its event announces the object, requests about it come after
\* that, and events about earlier objects of the id went before.
Announces(n, j) == events[n].op = "new" /\ events[n].other.id = j
Unannounced(j) == \A n \in Positions(events) : ~Announces(n, j)
ServerId(j) ==
  /\ proxies[j] \in {0, resources[j]}
  /\ resources[j] = 0 => Unannounced(j)
  /\ \A r \in Reqs(j) : r.op # "new" /\ r.obj = resources[j] /\ Unannounced(j)
  /\ Asked(j, "destroy") => proxies[j] = 0
  /\ proxies[j] # 0 =>
       Unannounced(j) /\ \A e \in Evs(j) : e.obj = proxies[j]
  /\ \A n \in Positions(events) :
       Announces(n, j) =>
         /\ events[n].other.obj = resources[j]
         /\ \A m \in Positions(events) : m > n => ~Announces(m, j)
         /\ \A m \in Positions(events) :
              m > n /\ events[m].id = j => events[m].obj = resources[j]

IdsInv ==
  /\ IdTypes /\ OnlyMade /\ EventShapes /\ InOrder /\ Kinds
  /\ ~refused /\ skew = 0
  /\ \A i \in ClientIds : ClientId(i)
  /\ \A j \in ServerIds : ServerId(j)

-----------------------------------------------------------------------------
(* Queues: what is sent comes last, and what is handled was first. *)

LEMMA Apart == ClientIds \cap ServerIds = {}
BY IdsAssumption

LEMMA Joined ==
  ASSUME NEW S, NEW queue \in Seq(S), NEW e
  PROVE  queue \o <<e>> = Append(queue, e)
OBVIOUS

LEMMA Elements ==
  ASSUME IdTypes
  PROVE  /\ \A n \in Positions(requests) :
              /\ requests[n] \in RequestTypes /\ requests[n].op \in {"new", "use", "destroy"}
              /\ requests[n].id \in I!Ids /\ requests[n].obj \in Nat /\ requests[n].obj # 0
         /\ \A n \in Positions(events) :
              /\ events[n] \in EventTypesOf /\ events[n].id \in I!Ids
              /\ events[n].op \in {"event", "new", "mention", "done", "delete"}
              /\ events[n].fd \in BOOLEAN
              /\ events[n].obj \in Nat /\ events[n].obj # 0
              /\ events[n].other.id \in I!Ids \cup {0} /\ events[n].other.obj \in Nat
<1>1. \A n \in Positions(requests) : requests[n] \in RequestTypes
  BY DEF IdTypes, Positions
<1>2. \A n \in Positions(events) : events[n] \in EventTypesOf
  BY DEF IdTypes, Positions
<1> QED BY <1>1, <1>2 DEF RequestTypes, EventTypesOf

LEMMA RequestSent ==
  ASSUME IdTypes, NEW r \in RequestTypes, requests' = Append(requests, r)
  PROVE  /\ requests' \in Seq(RequestTypes)
         /\ Len(requests) \in Nat /\ Len(requests') = Len(requests) + 1
         /\ \A n \in 1 .. Len(requests) : requests'[n] = requests[n]
         /\ requests'[Len(requests) + 1] = r
         /\ \A i : Reqs(i)' = IF i = r.id THEN Reqs(i) \cup {r} ELSE Reqs(i)
<1>1. /\ requests' \in Seq(RequestTypes)
      /\ Len(requests) \in Nat /\ Len(requests') = Len(requests) + 1
      /\ \A n \in 1 .. Len(requests) : requests'[n] = requests[n]
      /\ requests'[Len(requests) + 1] = r
  BY DEF IdTypes
<1>2. ASSUME NEW i PROVE Reqs(i)' = IF i = r.id THEN Reqs(i) \cup {r} ELSE Reqs(i)
  BY <1>1 DEF Reqs, Positions
<1> QED BY <1>1, <1>2

LEMMA EventSent ==
  ASSUME IdTypes, NEW e \in EventTypesOf, events' = Append(events, e)
  PROVE  /\ events' \in Seq(EventTypesOf)
         /\ Len(events) \in Nat /\ Len(events') = Len(events) + 1
         /\ \A n \in 1 .. Len(events) : events'[n] = events[n]
         /\ events'[Len(events) + 1] = e
         /\ \A i : Evs(i)' = IF i = e.id THEN Evs(i) \cup {e} ELSE Evs(i)
<1>1. /\ events' \in Seq(EventTypesOf)
      /\ Len(events) \in Nat /\ Len(events') = Len(events) + 1
      /\ \A n \in 1 .. Len(events) : events'[n] = events[n]
      /\ events'[Len(events) + 1] = e
  BY DEF IdTypes
<1>2. ASSUME NEW i PROVE Evs(i)' = IF i = e.id THEN Evs(i) \cup {e} ELSE Evs(i)
  BY <1>1 DEF Evs, Positions
<1> QED BY <1>1, <1>2

LEMMA RequestTaken ==
  ASSUME IdTypes, InOrder, requests # <<>>, requests' = Tail(requests),
         NEW r, r = Head(requests)
  PROVE  /\ requests' \in Seq(RequestTypes)
         /\ r \in RequestTypes /\ r \in Reqs(r.id) /\ r = requests[1]
         /\ Len(requests) \in Nat /\ Len(requests') = Len(requests) - 1
         /\ \A n \in 1 .. Len(requests') : requests'[n] = requests[n + 1]
         /\ \A i : Reqs(i) = IF i = r.id THEN Reqs(i)' \cup {r} ELSE Reqs(i)'
         /\ \A q \in Reqs(r.id)' : q.op # "new"
         /\ r.op = "destroy" => Reqs(r.id)' = {}
<1>1. /\ requests' \in Seq(RequestTypes) /\ r \in RequestTypes /\ r = requests[1]
      /\ Len(requests) \in Nat /\ Len(requests') = Len(requests) - 1 /\ Len(requests) > 0
      /\ \A n \in 1 .. Len(requests') : requests'[n] = requests[n + 1]
  BY DEF IdTypes
<1>2. r \in Reqs(r.id)
  BY <1>1 DEF Reqs, Positions
<1>3. ASSUME NEW i PROVE Reqs(i) = IF i = r.id THEN Reqs(i)' \cup {r} ELSE Reqs(i)'
  <2>1. Reqs(i)' \subseteq Reqs(i)
    BY <1>1 DEF Reqs, Positions
  <2>2. ASSUME NEW n \in 1 .. Len(requests), requests[n].id = i, n # 1
        PROVE  requests[n] \in Reqs(i)'
    <3>1. n - 1 \in 1 .. Len(requests') /\ requests'[n - 1] = requests[n]
      BY <1>1, <2>2
    <3> QED BY <3>1, <2>2 DEF Reqs, Positions
  <2>3. \A q \in Reqs(i) : q = r \/ q \in Reqs(i)'
    BY <1>1, <2>2 DEF Reqs, Positions
  <2>4. CASE i = r.id
    BY <1>2, <2>1, <2>3, <2>4
  <2>5. CASE i # r.id
    <3>1. r \notin Reqs(i)
      BY <2>5 DEF Reqs
    <3>2. Reqs(i) = Reqs(i)'
      BY <3>1, <2>1, <2>3
    <3> QED BY <3>2, <2>5
  <2> QED BY <2>4, <2>5
<1>4. \A q \in Reqs(r.id)' : q.op # "new" /\ r.op # "destroy"
  <2> SUFFICES ASSUME NEW n \in 1 .. Len(requests'), requests'[n].id = r.id
               PROVE  requests'[n].op # "new" /\ r.op # "destroy"
    BY DEF Reqs, Positions
  <2>1. n + 1 \in 1 .. Len(requests) /\ 1 \in 1 .. Len(requests) /\ 1 < n + 1
    BY <1>1
  <2>2. requests[n + 1].id = requests[1].id
    BY <1>1
  <2>3. requests[n + 1].op # "new" /\ requests[1].op # "destroy"
    BY <2>1, <2>2 DEF InOrder, Positions
  <2> QED BY <2>3, <1>1
<1> QED BY <1>1, <1>2, <1>3, <1>4

LEMMA EventTaken ==
  ASSUME IdTypes, InOrder, events # <<>>, events' = Tail(events), NEW e, e = Head(events)
  PROVE  /\ events' \in Seq(EventTypesOf)
         /\ e \in EventTypesOf /\ e \in Evs(e.id) /\ e = events[1]
         /\ Len(events) \in Nat /\ Len(events') = Len(events) - 1
         /\ \A n \in 1 .. Len(events') : events'[n] = events[n + 1]
         /\ \A i : Evs(i) = IF i = e.id THEN Evs(i)' \cup {e} ELSE Evs(i)'
         /\ e.op = "delete" => Evs(e.id)' = {}
<1>1. /\ events' \in Seq(EventTypesOf) /\ e \in EventTypesOf /\ e = events[1]
      /\ Len(events) \in Nat /\ Len(events') = Len(events) - 1 /\ Len(events) > 0
      /\ \A n \in 1 .. Len(events') : events'[n] = events[n + 1]
  BY DEF IdTypes
<1>2. e \in Evs(e.id)
  BY <1>1 DEF Evs, Positions
<1>3. ASSUME NEW i PROVE Evs(i) = IF i = e.id THEN Evs(i)' \cup {e} ELSE Evs(i)'
  <2>1. Evs(i)' \subseteq Evs(i)
    BY <1>1 DEF Evs, Positions
  <2>2. ASSUME NEW n \in 1 .. Len(events), events[n].id = i, n # 1
        PROVE  events[n] \in Evs(i)'
    <3>1. n - 1 \in 1 .. Len(events') /\ events'[n - 1] = events[n]
      BY <1>1, <2>2
    <3> QED BY <3>1, <2>2 DEF Evs, Positions
  <2>3. \A f \in Evs(i) : f = e \/ f \in Evs(i)'
    BY <1>1, <2>2 DEF Evs, Positions
  <2>4. CASE i = e.id
    BY <1>2, <2>1, <2>3, <2>4
  <2>5. CASE i # e.id
    <3>1. e \notin Evs(i)
      BY <2>5 DEF Evs
    <3>2. Evs(i) = Evs(i)'
      BY <3>1, <2>1, <2>3
    <3> QED BY <3>2, <2>5
  <2> QED BY <2>4, <2>5
<1>4. \A f \in Evs(e.id)' : e.op # "delete"
  <2> SUFFICES ASSUME NEW n \in 1 .. Len(events'), events'[n].id = e.id
               PROVE  e.op # "delete"
    BY DEF Evs, Positions
  <2>1. n + 1 \in 1 .. Len(events) /\ 1 \in 1 .. Len(events) /\ 1 < n + 1
    BY <1>1
  <2>2. events[n + 1].id = events[1].id
    BY <1>1
  <2>3. events[1].op # "delete"
    BY <2>1, <2>2 DEF InOrder, Positions
  <2> QED BY <2>3, <1>1
<1> QED BY <1>1, <1>2, <1>3, <1>4

-----------------------------------------------------------------------------
(* Ids that a step does not concern. *)

LEMMA ClientFrame ==
  ASSUME NEW i \in ClientIds, ClientId(i),
         proxies'[i] = proxies[i], zombies'[i] = zombies[i], resources'[i] = resources[i],
         i \in deletedIds' <=> i \in deletedIds,
         Reqs(i)' = Reqs(i), Evs(i)' = Evs(i),
         proxies[i] # 0 => kind'[proxies[i]] = kind[proxies[i]]
  PROVE  ClientId(i)'
BY DEF ClientId, OneOccupant, Unborn, Living, Ended, Seen, ByRequest, Occupant, Asked,
       Acknowledged

LEMMA ServerFrame ==
  ASSUME NEW j \in ServerIds, ServerId(j), proxies'[j] = proxies[j],
         resources'[j] = resources[j], Reqs(j)' = Reqs(j), UNCHANGED events
  PROVE  ServerId(j)'
<1>1. Evs(j)' = Evs(j)
  BY DEF Evs, Positions
<1> QED BY <1>1 DEF ServerId, Asked, Unannounced, Announces, Positions

\* Events that are sent do not disturb an id they are not about.
LEMMA ServerSent ==
  ASSUME NEW j \in ServerIds, ServerId(j), proxies'[j] = proxies[j],
         resources'[j] = resources[j], Reqs(j)' = Reqs(j),
         Len(events) \in Nat, Len(events') \in Nat, Len(events) <= Len(events'),
         \A n \in 1 .. Len(events) : events'[n] = events[n],
         \A n \in Len(events) + 1 .. Len(events') :
           ~Announces(n, j)' /\ (events'[n].id = j => events'[n].obj = resources[j])
  PROVE  ServerId(j)'
<1>1. \A n \in Positions(events)' :
        \/ n \in Positions(events) /\ events'[n] = events[n] /\ (Announces(n, j)' <=> Announces(n, j))
        \/ ~Announces(n, j)' /\ (events'[n].id = j => events'[n].obj = resources[j])
  BY DEF Positions, Announces
<1>2. Unannounced(j) => Unannounced(j)'
  BY <1>1 DEF Unannounced
<1>3. ASSUME NEW n \in Positions(events)', Announces(n, j)'
      PROVE  /\ events'[n].other.obj = resources'[j]
             /\ \A m \in Positions(events)' : m > n => ~Announces(m, j)'
             /\ \A m \in Positions(events)' :
                  m > n /\ events'[m].id = j => events'[m].obj = resources'[j]
  <2>1. n \in Positions(events) /\ Announces(n, j) /\ events'[n] = events[n]
    BY <1>1, <1>3
  <2>2. /\ events[n].other.obj = resources[j]
        /\ \A m \in Positions(events) : m > n => ~Announces(m, j)
        /\ \A m \in Positions(events) : m > n /\ events[m].id = j => events[m].obj = resources[j]
    BY <2>1 DEF ServerId
  <2> QED BY <2>1, <2>2, <1>1
<1>4. \A f \in Evs(j)' : f \in Evs(j) \/ f.obj = resources[j]
  BY <1>1 DEF Evs
<1>5. proxies[j] # 0 => \A f \in Evs(j)' : f.obj = proxies'[j]
  BY <1>4 DEF ServerId
<1> QED BY <1>2, <1>3, <1>5 DEF ServerId, Asked

LEMMA ServerTaken ==
  ASSUME IdTypes, InOrder, NEW j \in ServerIds, ServerId(j), proxies'[j] = proxies[j],
         resources'[j] = resources[j], Reqs(j)' = Reqs(j), events # <<>>, events' = Tail(events)
  PROVE  ServerId(j)'
<1>1. /\ Len(events) \in Nat /\ Len(events') = Len(events) - 1
      /\ \A n \in 1 .. Len(events') : events'[n] = events[n + 1]
      /\ Evs(j)' \subseteq Evs(j)
  BY EventTaken
<1>2. \A n \in Positions(events)' :
        n + 1 \in Positions(events) /\ (Announces(n, j)' <=> Announces(n + 1, j))
  BY <1>1 DEF Announces, Positions
<1>3. ASSUME NEW n \in Positions(events)', Announces(n, j)'
      PROVE  /\ events'[n].other.obj = resources'[j]
             /\ \A m \in Positions(events)' : m > n => ~Announces(m, j)'
             /\ \A m \in Positions(events)' :
                  m > n /\ events'[m].id = j => events'[m].obj = resources'[j]
  <2>1. n + 1 \in Positions(events) /\ Announces(n + 1, j)
    BY <1>2, <1>3
  <2>2. /\ events[n + 1].other.obj = resources[j]
        /\ \A m \in Positions(events) : m > n + 1 => ~Announces(m, j)
        /\ \A m \in Positions(events) : m > n + 1 /\ events[m].id = j => events[m].obj = resources[j]
    BY <2>1 DEF ServerId
  <2>3. \A m \in Positions(events)' : m > n => m + 1 > n + 1 /\ m + 1 \in Positions(events)
    BY <1>2 DEF Positions
  <2>4. \A m \in Positions(events)' : events'[m] = events[m + 1]
    BY <1>1 DEF Positions
  <2> QED BY <2>2, <2>3, <2>4, <1>2
<1>4. Unannounced(j) => Unannounced(j)'
  BY <1>2 DEF Unannounced
<1> QED BY <1>1, <1>3, <1>4 DEF ServerId, Asked

-----------------------------------------------------------------------------
(* The client. *)

LEMMA UseStep ==
  ASSUME IdsInv, NEW u \in I!Ids, I!Use(u)
  PROVE  IdsInv'
<1> DEFINE r == I!Request("use", u, proxies[u])
<1> USE Apart DEF IdsInv, I!Ids
<1>1. /\ r \in RequestTypes /\ r.op = "use" /\ r.id = u /\ r.obj = proxies[u]
      /\ kind[proxies[u]] = "normal" /\ proxies[u] # 0 /\ requests' = Append(requests, r)
      /\ UNCHANGED <<kind, proxies, zombies, deletedIds, resources, events, refused, skew, broken>>
  BY DEF I!Use, I!Request, RequestTypes, IdTypes, I!clientVars
<1> HIDE DEF r
<1>2. /\ requests' \in Seq(RequestTypes)
      /\ Len(requests) \in Nat /\ Len(requests') = Len(requests) + 1
      /\ \A n \in 1 .. Len(requests) : requests'[n] = requests[n]
      /\ requests'[Len(requests) + 1] = r
      /\ \A i : Reqs(i)' = IF i = u THEN Reqs(i) \cup {r} ELSE Reqs(i)
  BY <1>1, RequestSent
<1>3. \A i : Evs(i)' = Evs(i)
  BY <1>1 DEF Evs, Positions
<1>4. ~Asked(u, "destroy")
  BY <1>1 DEF ClientId, ByRequest, ServerId
<1>5. IdTypes' /\ OnlyMade'
  <2>1. \A n \in Positions(requests') : requests'[n].obj <= Len(kind)
    BY <1>1, <1>2 DEF OnlyMade, I!Made, Positions
  <2> QED BY <2>1, <1>1, <1>2 DEF IdTypes, OnlyMade, I!Made, Positions
<1>6. EventShapes' /\ Kinds'
  BY <1>1, <1>2 DEF EventShapes, Kinds, Positions
<1>7. InOrder'
  BY <1>1, <1>2, <1>4 DEF InOrder, Asked, Reqs, Positions
<1>8. ASSUME NEW i \in ClientIds PROVE ClientId(i)'
  <2>1. CASE i = u
    <3>1. Occupant(u)' = proxies[u] /\ Occupant(u) = proxies[u]
      BY <1>1 DEF Occupant
    <3>2. \A op \in {"new", "destroy"} : Asked(u, op)' <=> Asked(u, op)
      BY <1>1, <1>2 DEF Asked
    <3> QED BY <2>1, <3>1, <3>2, <1>1, <1>2, <1>3
            DEF ClientId, OneOccupant, Unborn, Living, Ended, Seen, ByRequest, Acknowledged
  <2>2. CASE i # u
    BY <2>2, <1>1, <1>2, <1>3, ClientFrame
  <2> QED BY <2>1, <2>2
<1>9. ASSUME NEW j \in ServerIds PROVE ServerId(j)'
  <2>1. CASE j = u
    <3>1. Unannounced(u) /\ proxies[u] = resources[u] /\ (Unannounced(u)' <=> Unannounced(u))
      BY <2>1, <1>1 DEF ServerId, Unannounced, Announces, Positions
    <3> QED BY <2>1, <3>1, <1>1, <1>2, <1>3, <1>4 DEF ServerId, Asked, Unannounced, Announces, Positions
  <2>2. CASE j # u
    BY <2>2, <1>1, <1>2, ServerFrame
  <2> QED BY <2>1, <2>2
<1> QED BY <1>1, <1>5, <1>6, <1>7, <1>8, <1>9

LEMMA CreateStep ==
  ASSUME IdsInv, NEW u \in ClientIds, NEW k \in {"normal", "once"}, I!Create(u, k)
  PROVE  IdsInv'
<1> DEFINE r == I!Request("new", u, I!Made + 1)
<1> USE Apart DEF IdsInv, I!Ids
<1>1. /\ r \in RequestTypes /\ r.op = "new" /\ r.id = u /\ r.obj = Len(kind) + 1
      /\ kind' = Append(kind, k) /\ proxies' = [proxies EXCEPT ![u] = Len(kind) + 1]
      /\ requests' = Append(requests, r) /\ Len(kind) < MaxObjects
      /\ proxies[u] = 0 /\ zombies[u] = 0 /\ u \notin deletedIds
      /\ UNCHANGED <<zombies, deletedIds, resources, events, refused, skew, broken>>
  BY DEF I!Create, I!Request, I!Made, I!Allocatable, RequestTypes, IdTypes
<1> HIDE DEF r
<1>2. /\ requests' \in Seq(RequestTypes)
      /\ Len(requests) \in Nat /\ Len(requests') = Len(requests) + 1
      /\ \A n \in 1 .. Len(requests) : requests'[n] = requests[n]
      /\ requests'[Len(requests) + 1] = r
      /\ \A i : Reqs(i)' = IF i = u THEN Reqs(i) \cup {r} ELSE Reqs(i)
  BY <1>1, RequestSent
<1>2a. /\ kind' \in Seq({"normal", "once"}) /\ Len(kind) \in Nat /\ Len(kind') = Len(kind) + 1
       /\ \A n \in 1 .. Len(kind) : kind'[n] = kind[n]
       /\ kind'[Len(kind) + 1] = k
  BY <1>1 DEF IdTypes
<1>3. \A i : Evs(i)' = Evs(i)
  BY <1>1 DEF Evs, Positions
<1>4. Reqs(u) = {} /\ Evs(u) = {} /\ resources[u] = 0
  <2>1. OneOccupant(u) /\ Occupant(u) = 0
    BY <1>1 DEF ClientId, Occupant
  <2>2. ASSUME NEW q \in Reqs(u) PROVE FALSE
    <3>1. q.obj = 0
      BY <2>1 DEF OneOccupant
    <3>2. PICK n \in Positions(requests) : q = requests[n]
      BY DEF Reqs
    <3> QED BY <3>1, <3>2, Elements
  <2>3. ASSUME NEW e \in Evs(u) PROVE FALSE
    <3>1. e.obj = 0
      BY <2>1 DEF OneOccupant
    <3>2. PICK n \in Positions(events) : e = events[n]
      BY DEF Evs
    <3> QED BY <3>1, <3>2, Elements
  <2>4. resources[u] = 0
    BY <2>1 DEF OneOccupant
  <2> QED BY <2>2, <2>3, <2>4
<1>5. IdTypes'
  BY IdsAssumption, <1>1, <1>2, <1>2a DEF IdTypes, I!Made
<1>5a. OnlyMade'
  <2>1. \A i \in I!Ids : proxies'[i] <= Len(kind') /\ resources'[i] <= Len(kind')
    BY <1>1, <1>2a DEF IdTypes, OnlyMade, I!Made
  <2>2. \A i \in ClientIds : zombies'[i] <= Len(kind')
    BY <1>1, <1>2a DEF IdTypes, OnlyMade, I!Made
  <2>3. \A n \in Positions(requests') : requests'[n].obj <= Len(kind')
    BY <1>1, <1>2, <1>2a, Elements DEF OnlyMade, I!Made, Positions
  <2>4. \A n \in Positions(events') :
          events'[n].obj <= Len(kind') /\ events'[n].other.obj <= Len(kind')
    BY <1>1, <1>2a, Elements DEF OnlyMade, I!Made, Positions
  <2> QED BY <2>1, <2>2, <2>3, <2>4 DEF OnlyMade, I!Made
<1>6. EventShapes'
  BY <1>1 DEF EventShapes, Positions
<1>6a. Kinds'
  <2>1. \A n \in Positions(requests') : requests'[n].op # "new" => kind'[requests'[n].obj] = "normal"
    BY SMTT(30), <1>1, <1>2, <1>2a, Elements DEF Kinds, OnlyMade, I!Made, Positions
  <2>2. ASSUME NEW j \in ServerIds
        PROVE  /\ proxies'[j] # 0 => kind'[proxies'[j]] = "normal"
               /\ resources'[j] # 0 => kind'[resources'[j]] = "normal"
    <3>1. proxies'[j] = proxies[j] /\ proxies[j] \in 0 .. Len(kind) /\ resources[j] \in 0 .. Len(kind)
      BY <1>1 DEF IdTypes, OnlyMade, I!Made
    <3> QED BY <3>1, <1>1, <1>2a DEF Kinds
  <2> QED BY <2>1, <2>2 DEF Kinds
<1>7. InOrder'
  <2>1. \A m \in 1 .. Len(requests) : requests[m].id # u
    BY <1>4 DEF Reqs, Positions
  <2>2. r.id = u /\ events' = events
    BY <1>1
  <2> QED BY <2>1, <2>2, <1>2 DEF InOrder, Positions
<1>8. ASSUME NEW i \in ClientIds PROVE ClientId(i)'
  <2>1. CASE i = u
    <3>1. Occupant(u)' = Len(kind) + 1 /\ proxies'[u] = Len(kind) + 1 /\ Len(kind) + 1 # 0
      BY <1>1, <1>2a DEF Occupant, IdTypes
    <3>2. Reqs(u)' = {r} /\ Evs(u)' = {} /\ resources'[u] = 0 /\ u \notin deletedIds' /\ zombies'[u] = 0
      BY <1>1, <1>2, <1>3, <1>4
    <3> QED BY <2>1, <3>1, <3>2, <1>1
            DEF ClientId, OneOccupant, Unborn, Living, Ended, Seen, ByRequest, Asked, Acknowledged
  <2>2. CASE i # u
    <3>1. proxies'[i] = proxies[i] /\ (proxies[i] # 0 => kind'[proxies[i]] = kind[proxies[i]])
      BY <2>2, <1>1, <1>2a DEF IdTypes, OnlyMade, I!Made
    <3> QED BY <3>1, <2>2, <1>1, <1>2, <1>3, ClientFrame
  <2> QED BY <2>1, <2>2
<1>9. ASSUME NEW j \in ServerIds PROVE ServerId(j)'
  <2>1. j # u /\ proxies'[j] = proxies[j]
    BY <1>1 DEF IdTypes
  <2> QED BY <2>1, <1>1, <1>2, ServerFrame
<1> QED BY <1>1, <1>5, <1>5a, <1>6, <1>6a, <1>7, <1>8, <1>9

LEMMA DestroyStep ==
  ASSUME IdsInv, NEW u \in I!Ids, I!Destroy(u)
  PROVE  IdsInv'
<1> DEFINE r == I!Request("destroy", u, proxies[u])
<1> USE Apart DEF IdsInv, I!Ids
<1>0. u \notin deletedIds
  <2>1. CASE u \in ClientIds
    BY <2>1 DEF I!Destroy, ClientId, Unborn, Living, ByRequest
  <2> QED BY <2>1 DEF IdTypes
<1>1. /\ r \in RequestTypes /\ r.op = "destroy" /\ r.id = u /\ r.obj = proxies[u]
      /\ kind[proxies[u]] = "normal" /\ proxies[u] # 0 /\ requests' = Append(requests, r)
      /\ proxies' = [proxies EXCEPT ![u] = 0]
      /\ u \in ClientIds => zombies' = [zombies EXCEPT ![u] = proxies[u]]
      /\ u \notin ClientIds => zombies' = zombies
      /\ UNCHANGED <<kind, deletedIds, resources, events, refused, skew, broken>>
  BY <1>0 DEF I!Destroy, I!DestroyProxy, I!Request, RequestTypes, IdTypes
<1> HIDE DEF r
<1>2. /\ requests' \in Seq(RequestTypes)
      /\ Len(requests) \in Nat /\ Len(requests') = Len(requests) + 1
      /\ \A n \in 1 .. Len(requests) : requests'[n] = requests[n]
      /\ requests'[Len(requests) + 1] = r
      /\ \A i : Reqs(i)' = IF i = u THEN Reqs(i) \cup {r} ELSE Reqs(i)
  BY <1>1, RequestSent
<1>3. \A i : Evs(i)' = Evs(i)
  BY <1>1 DEF Evs, Positions
<1>4. ~Asked(u, "destroy")
  BY <1>1 DEF ClientId, ByRequest, ServerId
<1>5. IdTypes'
  BY <1>1, <1>2 DEF IdTypes, I!Made
<1>5a. OnlyMade'
  <2>1. \A i \in I!Ids : proxies'[i] <= Len(kind') /\ resources'[i] <= Len(kind')
    BY <1>1 DEF IdTypes, OnlyMade, I!Made
  <2>2. \A i \in ClientIds : zombies'[i] <= Len(kind')
    BY <1>1 DEF IdTypes, OnlyMade, I!Made
  <2>3. \A n \in Positions(requests') : requests'[n].obj <= Len(kind')
    BY <1>1, <1>2 DEF OnlyMade, I!Made, Positions
  <2> QED BY <2>1, <2>2, <2>3, <1>1 DEF OnlyMade, I!Made, Positions
<1>6. EventShapes' /\ Kinds'
  BY <1>1, <1>2 DEF EventShapes, Kinds, Positions, IdTypes
<1>7. InOrder'
  BY <1>1, <1>2, <1>4 DEF InOrder, Asked, Reqs, Positions
<1>8. ASSUME NEW i \in ClientIds PROVE ClientId(i)'
  <2>1. CASE i = u
    <3>1. proxies'[u] = 0 /\ zombies'[u] = proxies[u] /\ Occupant(u)' = proxies[u] /\ Occupant(u) = proxies[u]
      BY <2>1, <1>1 DEF Occupant, IdTypes
    <3>2. Asked(u, "new")' <=> Asked(u, "new")
      BY <1>1, <1>2 DEF Asked
    <3> QED BY <2>1, <3>1, <3>2, <1>0, <1>1, <1>2, <1>3
            DEF ClientId, OneOccupant, Unborn, Living, Ended, Seen, ByRequest, Acknowledged
  <2>2. CASE i # u
    <3>1. proxies'[i] = proxies[i] /\ zombies'[i] = zombies[i]
      BY <2>2, <1>1 DEF IdTypes
    <3> QED BY <3>1, <2>2, <1>1, <1>2, <1>3, ClientFrame
  <2> QED BY <2>1, <2>2
<1>9. ASSUME NEW j \in ServerIds PROVE ServerId(j)'
  <2>1. CASE j = u
    <3>1. /\ Unannounced(u) /\ proxies[u] = resources[u] /\ (Unannounced(u)' <=> Unannounced(u))
          /\ proxies'[u] = 0
      BY <2>1, <1>1 DEF ServerId, Unannounced, Announces, Positions, IdTypes
    <3> QED BY <2>1, <3>1, <1>1, <1>2, <1>3 DEF ServerId, Asked, Unannounced, Announces, Positions
  <2>2. CASE j # u
    <3>1. proxies'[j] = proxies[j]
      BY <2>2, <1>1 DEF IdTypes
    <3> QED BY <3>1, <2>2, <1>1, <1>2, ServerFrame
  <2> QED BY <2>1, <2>2
<1> QED BY <1>1, <1>5, <1>5a, <1>6, <1>7, <1>8, <1>9

LEMMA DropStep ==
  ASSUME IdsInv, NEW u \in I!Ids, I!Drop(u)
  PROVE  IdsInv'
<1> USE Apart DEF IdsInv, I!Ids
<1>0. u \in ClientIds /\ proxies[u] # 0 /\ kind[proxies[u]] = "once"
  BY DEF I!Drop, Kinds
<1>1. /\ proxies' = [proxies EXCEPT ![u] = 0] /\ deletedIds' = deletedIds \ {u}
      /\ zombies' = IF u \in deletedIds THEN zombies ELSE [zombies EXCEPT ![u] = proxies[u]]
      /\ UNCHANGED <<kind, resources, requests, events, refused, skew, broken>>
  BY <1>0 DEF I!Drop, I!DestroyProxy
<1>2. (\A i : Reqs(i)' = Reqs(i)) /\ (\A i : Evs(i)' = Evs(i))
  BY <1>1 DEF Reqs, Evs, Positions
<1>3. u \in deletedIds => Reqs(u) = {} /\ Evs(u) = {} /\ resources[u] = 0 /\ zombies[u] = 0
  BY <1>0 DEF ClientId, OneOccupant, Occupant, Unborn, Living, Ended, Seen
<1>4. IdTypes'
  BY <1>0, <1>1 DEF IdTypes, I!Made
<1>5. OnlyMade'
  <2>1. \A i \in I!Ids : proxies'[i] <= Len(kind') /\ resources'[i] <= Len(kind')
    BY <1>1 DEF IdTypes, OnlyMade, I!Made
  <2>2. \A i \in ClientIds : zombies'[i] <= Len(kind')
    BY <1>1 DEF IdTypes, OnlyMade, I!Made
  <2> QED BY <2>1, <2>2, <1>1 DEF OnlyMade, I!Made, Positions
<1>6. EventShapes' /\ Kinds' /\ InOrder'
  BY <1>1 DEF EventShapes, Kinds, InOrder, Positions, IdTypes
<1>7. ASSUME NEW i \in ClientIds PROVE ClientId(i)'
  <2>1. CASE i = u
    <3>1. proxies'[u] = 0 /\ zombies'[u] = IF u \in deletedIds THEN zombies[u] ELSE proxies[u]
      BY <1>0, <1>1 DEF IdTypes
    <3>2. CASE u \in deletedIds
      BY <2>1, <3>1, <3>2, <1>1, <1>2, <1>3
      DEF ClientId, OneOccupant, Unborn, Living, Ended, Seen, ByRequest, Acknowledged, Asked, Occupant
    <3>3. CASE u \notin deletedIds
      BY <2>1, <3>1, <3>3, <1>0, <1>1, <1>2
      DEF ClientId, OneOccupant, Unborn, Living, Ended, Seen, ByRequest, Acknowledged, Asked, Occupant
    <3> QED BY <3>2, <3>3
  <2>2. CASE i # u
    <3>1. proxies'[i] = proxies[i] /\ zombies'[i] = zombies[i] /\ (i \in deletedIds' <=> i \in deletedIds)
      BY <2>2, <1>1 DEF IdTypes
    <3> QED BY <3>1, <2>2, <1>1, <1>2, ClientFrame
  <2> QED BY <2>1, <2>2
<1>8. ASSUME NEW j \in ServerIds PROVE ServerId(j)'
  <2>1. proxies'[j] = proxies[j]
    BY <1>0, <1>1 DEF IdTypes
  <2> QED BY <2>1, <1>1, <1>2, ServerFrame
<1> QED BY <1>1, <1>4, <1>5, <1>6, <1>7, <1>8

\* What every step that takes an event has in common.
LEMMA EventTakenFrame ==
  ASSUME IdsInv, events # <<>>, events' = Tail(events),
         UNCHANGED <<kind, resources, requests, refused>>
  PROVE  /\ events' \in Seq(EventTypesOf) /\ InOrder' /\ EventShapes'
         /\ \A n \in Positions(events') :
              events'[n].obj <= I!Made /\ events'[n].other.obj <= I!Made
<1> DEFINE e == Head(events)
<1> USE DEF IdsInv
<1>1. /\ events' \in Seq(EventTypesOf) /\ Len(events) \in Nat /\ Len(events') = Len(events) - 1
      /\ \A n \in 1 .. Len(events') : events'[n] = events[n + 1]
  BY EventTaken
<1>2. \A n \in Positions(events') : n + 1 \in Positions(events) /\ events'[n] = events[n + 1]
  BY <1>1 DEF Positions
<1>3. InOrder'
  <2>1. ASSUME NEW m \in Positions(events'), NEW n \in Positions(events'),
               m < n, events'[m].id = events'[n].id
        PROVE  events'[m].op # "delete"
    <3>1. m + 1 \in Positions(events) /\ n + 1 \in Positions(events) /\ m + 1 < n + 1
      BY <1>2, <2>1 DEF Positions
    <3> QED BY <3>1, <2>1, <1>2 DEF InOrder
  <2> QED BY <2>1 DEF InOrder, Positions
<1>4. EventShapes'
  BY <1>2 DEF EventShapes, I!Made
<1> QED BY <1>1, <1>2, <1>3, <1>4 DEF OnlyMade, I!Made

LEMMA AcknowledgeStep ==
  ASSUME IdsInv, events # <<>>, events' = Tail(events), NEW u, u = Head(events).id,
         Head(events).op = "delete", I!Acknowledge(u), UNCHANGED <<kind, resources, requests, refused>>
  PROVE  IdsInv'
<1> DEFINE e == Head(events)
<1> USE Apart DEF IdsInv, I!Ids
<1>1. /\ u \in ClientIds /\ e \in Evs(u) /\ e.op = "delete" /\ Evs(u)' = {}
      /\ \A i : i # u => Evs(i)' = Evs(i)
  BY EventTaken DEF EventShapes, Positions
<1>2. \A i : Reqs(i)' = Reqs(i)
  BY DEF Reqs, Positions
<1>3. /\ zombies' = [zombies EXCEPT ![u] = 0] /\ proxies' = proxies /\ broken' = broken /\ skew' = 0
      /\ deletedIds' = IF zombies[u] = 0 /\ proxies[u] # 0 THEN deletedIds \cup {u} ELSE deletedIds
  BY DEF I!Acknowledge
<1>4. IdTypes' /\ OnlyMade'
  <2>1. IdTypes'
    BY <1>1, <1>3, EventTakenFrame DEF IdTypes, I!Made
  <2>2. \A i \in ClientIds : zombies'[i] <= Len(kind')
    BY <1>3 DEF IdTypes, OnlyMade, I!Made
  <2>3. \A n \in Positions(requests') : requests'[n].obj <= Len(kind')
    BY DEF OnlyMade, I!Made, Positions
  <2>4. \A i \in I!Ids : proxies'[i] <= Len(kind') /\ resources'[i] <= Len(kind')
    BY <1>3 DEF OnlyMade, I!Made
  <2> QED BY <2>1, <2>2, <2>3, <2>4, EventTakenFrame DEF OnlyMade, I!Made
<1>5. EventShapes' /\ Kinds' /\ InOrder'
  BY <1>3, EventTakenFrame DEF Kinds, Positions
<1>6. ASSUME NEW i \in ClientIds PROVE ClientId(i)'
  <2>1. CASE i = u
    <3>1. Acknowledged(u) /\ e.obj = Occupant(u) /\ e.obj # 0
      BY <1>1, Elements, EventTaken DEF Acknowledged, ClientId, OneOccupant, EventTypesOf
    <3>2. resources[u] = 0 /\ Reqs(u) = {} /\ u \notin deletedIds /\ ~Asked(u, "new")
      BY <1>1, <3>1, <2>1 DEF ClientId, Living, Unborn, Ended, Seen
    <3>3. zombies'[u] = 0 /\ Reqs(u)' = {} /\ Evs(u)' = {} /\ resources'[u] = 0
      BY <3>2, <1>1, <1>2, <1>3 DEF IdTypes
    <3>4. CASE proxies[u] = 0
      <4>1. proxies'[u] = 0 /\ zombies[u] # 0 /\ u \notin deletedIds'
        BY <3>1, <3>2, <3>4, <1>3 DEF Occupant
      <4> QED BY <2>1, <4>1, <3>3 DEF ClientId, OneOccupant, Unborn, Living, Ended, Seen, ByRequest, Occupant, Asked
    <3>5. CASE proxies[u] # 0
      <4>1. proxies'[u] # 0 /\ u \in deletedIds' /\ kind'[proxies'[u]] # "normal"
        BY <2>1, <3>2, <3>5, <1>3 DEF ClientId, OneOccupant, ByRequest
      <4> QED BY <2>1, <4>1, <3>3 DEF ClientId, OneOccupant, Unborn, Living, Ended, Seen, ByRequest, Occupant, Asked
    <3> QED BY <3>4, <3>5
  <2>2. CASE i # u
    <3>1. proxies'[i] = proxies[i] /\ zombies'[i] = zombies[i] /\ (i \in deletedIds' <=> i \in deletedIds)
      BY <2>2, <1>1, <1>3 DEF IdTypes
    <3> QED BY <3>1, <2>2, <1>1, <1>2, ClientFrame
  <2> QED BY <2>1, <2>2
<1>7. ASSUME NEW j \in ServerIds PROVE ServerId(j)'
  BY <1>2, <1>3, ServerTaken
<1> QED BY <1>3, <1>4, <1>5, <1>6, <1>7

\* An event that changes no table of the client.
LEMMA EventIgnored ==
  ASSUME IdsInv, events # <<>>, events' = Tail(events), Head(events).op # "delete",
         UNCHANGED <<kind, proxies, zombies, deletedIds, resources, requests, refused, skew>>,
         broken' \in BOOLEAN
  PROVE  IdsInv'
<1> DEFINE e == Head(events)
<1> USE Apart DEF IdsInv, I!Ids
<1>1. \A i : Reqs(i)' = Reqs(i)
  BY DEF Reqs, Positions
<1>2. IdTypes' /\ OnlyMade' /\ EventShapes' /\ Kinds' /\ InOrder'
  <2>1. IdTypes'
    BY EventTakenFrame DEF IdTypes, I!Made
  <2>2. OnlyMade'
    BY EventTakenFrame DEF OnlyMade, I!Made, Positions
  <2> QED BY <2>1, <2>2, EventTakenFrame DEF Kinds, Positions
<1>3. ASSUME NEW i \in ClientIds PROVE ClientId(i)'
  <2>1. CASE i = e.id
    <3>1. e \in Evs(i) /\ Evs(i)' \subseteq Evs(i) /\ Evs(i) = Evs(i)' \cup {e}
      BY <2>1, EventTaken
    <3>2. Acknowledged(i)' <=> Acknowledged(i)
      BY <3>1 DEF Acknowledged
    <3> QED BY <3>1, <3>2, <1>1
            DEF ClientId, OneOccupant, Unborn, Living, Ended, Seen, ByRequest, Asked, Occupant
  <2>2. CASE i # e.id
    <3>1. Evs(i)' = Evs(i)
      BY <2>2, EventTaken
    <3> QED BY <3>1, <1>1, ClientFrame
  <2> QED BY <2>1, <2>2
<1>4. ASSUME NEW j \in ServerIds PROVE ServerId(j)'
  BY <1>1, ServerTaken
<1> QED BY <1>2, <1>3, <1>4

\* The observer of a new object creates its proxy: the id is not taken.
LEMMA ObserveNewStep ==
  ASSUME IdsInv, events # <<>>, events' = Tail(events), Head(events).op = "new",
         NEW u, u = Head(events).other.id, NEW o, o = Head(events).other.obj,
         I!ObserveNew(Head(events).other), UNCHANGED <<kind, resources, requests, refused, skew>>
  PROVE  IdsInv'
<1> DEFINE e == Head(events)
<1> USE Apart DEF IdsInv, I!Ids
<1>1. /\ e = events[1] /\ 1 \in Positions(events) /\ Len(events) \in Nat
      /\ Len(events') = Len(events) - 1
      /\ \A n \in 1 .. Len(events') : events'[n] = events[n + 1]
  BY EventTaken DEF IdTypes, Positions
<1>2. u \in ServerIds /\ Announces(1, u) /\ ~Unannounced(u) /\ o # 0 /\ o \in Nat
  BY <1>1, Elements DEF EventShapes, Announces, Unannounced
<1>3. proxies[u] = 0 /\ resources[u] = o /\ Reqs(u) = {}
  BY <1>1, <1>2 DEF ServerId
<1>4. proxies' = [proxies EXCEPT ![u] = o] /\ UNCHANGED <<zombies, deletedIds, broken>>
  BY <1>3 DEF I!ObserveNew
<1>5. \A i : Reqs(i)' = Reqs(i)
  BY DEF Reqs, Positions
<1>6. IdTypes' /\ OnlyMade'
  <2>1. IdTypes'
    BY <1>2, <1>4, EventTakenFrame DEF IdTypes, I!Made
  <2>2. \A i \in I!Ids : proxies'[i] <= Len(kind') /\ resources'[i] <= Len(kind')
    BY <1>2, <1>3, <1>4 DEF OnlyMade, I!Made, IdTypes
  <2> QED BY <2>1, <2>2, <1>4, EventTakenFrame DEF OnlyMade, I!Made, Positions
<1>7. EventShapes' /\ InOrder' /\ Kinds'
  BY EventTakenFrame, <1>2, <1>3, <1>4 DEF Kinds, Positions, IdTypes
<1>8. ASSUME NEW i \in ClientIds PROVE ClientId(i)'
  <2>1. proxies'[i] = proxies[i]
    BY <1>2, <1>4 DEF IdTypes
  <2>2. CASE i = e.id
    <3>1. e \in Evs(i) /\ Evs(i)' \subseteq Evs(i) /\ Evs(i) = Evs(i)' \cup {e}
      BY <2>2, EventTaken
    <3>2. Acknowledged(i)' <=> Acknowledged(i)
      BY <3>1 DEF Acknowledged
    <3> QED BY <2>1, <3>1, <3>2, <1>4, <1>5
            DEF ClientId, OneOccupant, Unborn, Living, Ended, Seen, ByRequest, Asked, Occupant
  <2>3. CASE i # e.id
    <3>1. Evs(i)' = Evs(i)
      BY <2>3, EventTaken
    <3> QED BY <2>1, <3>1, <1>4, <1>5, ClientFrame
  <2> QED BY <2>2, <2>3
<1>9. ASSUME NEW j \in ServerIds PROVE ServerId(j)'
  <2>1. CASE j = u
    <3>1. proxies'[u] = o
      BY <1>2, <1>4 DEF IdTypes
    <3>2. resources'[u] = o /\ Reqs(u)' = {}
      <4>1. resources' = resources
        OBVIOUS
      <4> QED BY <4>1, <1>3, <1>5
    <3>3. \A m \in Positions(events) : m > 1 => ~Announces(m, u) /\ (events[m].id = u => events[m].obj = o)
      BY <1>1, <1>2, <1>3 DEF ServerId
    <3>4. \A n \in Positions(events') : n + 1 \in Positions(events) /\ n + 1 > 1 /\ events'[n] = events[n + 1]
      BY <1>1 DEF Positions
    <3>5. \A n \in Positions(events') : ~Announces(n, u)' /\ (events'[n].id = u => events'[n].obj = o)
      <4> SUFFICES ASSUME NEW n \in Positions(events')
                   PROVE  ~Announces(n, u)' /\ (events'[n].id = u => events'[n].obj = o)
        OBVIOUS
      <4>1. n + 1 \in Positions(events) /\ n + 1 > 1 /\ events'[n] = events[n + 1]
        BY <3>4
      <4>2. ~Announces(n + 1, u) /\ (events[n + 1].id = u => events[n + 1].obj = o)
        BY <3>3, <4>1
      <4> QED BY ONLY <4>1, <4>2 DEF Announces
    <3>6. Unannounced(u)' /\ \A n \in Positions(events)' : ~Announces(n, u)'
      BY <3>5 DEF Unannounced, Positions
    <3>7. \A f \in Evs(u)' : f.obj = o
      BY <3>5 DEF Evs, Positions
    <3>8. ServerId(u)'
      BY <3>1, <3>2, <3>6, <3>7, <1>2 DEF ServerId, Asked
    <3> QED BY <2>1, <3>8
  <2>2. CASE j # u
    <3>1. proxies'[j] = proxies[j]
      BY <2>2, <1>4 DEF IdTypes
    <3> QED BY <3>1, <1>5, ServerTaken
  <2> QED BY <2>1, <2>2
<1> QED BY <1>4, <1>6, <1>7, <1>8, <1>9

LEMMA DispatchStep ==
  ASSUME IdsInv, I!DispatchEvent
  PROVE  IdsInv'
<1> DEFINE e == Head(events)
<1>1. /\ events # <<>> /\ events' = Tail(events)
      /\ UNCHANGED <<kind, resources, requests, refused>>
      /\ skew = 0 /\ ~refused
  BY DEF I!DispatchEvent, IdsInv
<1>2. e \in Evs(e.id) /\ e = events[1] /\ 1 \in Positions(events) /\ e.id \in I!Ids
  BY <1>1, EventTaken, Elements DEF IdsInv, IdTypes, Positions
<1>3. CASE e.op = "delete"
  <2>1. I!Acknowledge(e.id)
    BY <1>3 DEF I!DispatchEvent
  <2> QED BY <2>1, <1>1, <1>3, AcknowledgeStep
<1>4. CASE e.op # "delete" /\ proxies[e.id] = 0
  <2>1. I!DropEvent(e)
    BY <1>4 DEF I!DispatchEvent
  <2>2. e.id \in ClientIds => zombies[e.id] # 0
    BY <1>2, <1>4, Elements DEF IdsInv, ClientId, OneOccupant, Occupant
  <2>3. e.fd => e.id \in ClientIds
    BY <1>2 DEF IdsInv, EventShapes
  <2>4. skew' = skew /\ UNCHANGED <<proxies, zombies, deletedIds, broken>>
    BY <2>1, <2>2, <2>3, Apart DEF I!DropEvent, I!clientVars
  <2> QED BY <2>4, <1>1, <1>4, EventIgnored DEF IdsInv, IdTypes
<1>5. CASE e.op # "delete" /\ proxies[e.id] # 0
  <2>1. skew' = skew
    BY <1>5 DEF I!DispatchEvent
  <2>2. CASE e.op = "new"
    <3>1. I!ObserveNew(e.other)
      BY <1>5, <2>2 DEF I!DispatchEvent
    <3> QED BY <3>1, <2>1, <2>2, <1>1, ObserveNewStep
  <2>3. CASE e.op = "mention"
    <3>1. I!ObserveMention(e.other)
      BY <1>5, <2>3 DEF I!DispatchEvent
    <3>2. broken' \in BOOLEAN /\ UNCHANGED <<proxies, zombies, deletedIds>>
      BY <3>1 DEF I!ObserveMention, I!clientVars
    <3> QED BY <3>2, <2>1, <1>1, <1>5, EventIgnored
  <2>4. CASE e.op # "new" /\ e.op # "mention"
    <3>1. UNCHANGED <<proxies, zombies, deletedIds, broken>>
      BY <1>5, <2>4 DEF I!DispatchEvent, I!clientVars
    <3> QED BY <3>1, <2>1, <1>1, <1>5, EventIgnored DEF IdsInv, IdTypes
  <2> QED BY <2>2, <2>3, <2>4
<1> QED BY <1>3, <1>4, <1>5
-----------------------------------------------------------------------------
(* The server. *)

\* What every step that takes a request has in common.
LEMMA RequestTakenFrame ==
  ASSUME IdsInv, requests # <<>>, requests' = Tail(requests), kind' = kind
  PROVE  /\ \A n \in Positions(requests') : requests'[n].obj <= Len(kind')
         /\ \A n \in Positions(requests') : requests'[n].op # "new" => kind'[requests'[n].obj] = "normal"
         /\ \A m, n \in Positions(requests') :
              m < n /\ requests'[m].id = requests'[n].id =>
                requests'[n].op # "new" /\ requests'[m].op # "destroy"
<1>1. \A n \in Positions(requests') : n + 1 \in Positions(requests) /\ requests'[n] = requests[n + 1]
  BY RequestTaken DEF IdsInv, Positions
<1>2. ASSUME NEW m \in Positions(requests'), NEW n \in Positions(requests'),
             m < n, requests'[m].id = requests'[n].id
      PROVE  requests'[n].op # "new" /\ requests'[m].op # "destroy"
  <2>1. m + 1 \in Positions(requests) /\ n + 1 \in Positions(requests) /\ m + 1 < n + 1
    BY <1>1, <1>2 DEF Positions
  <2> QED BY <2>1, <1>1, <1>2 DEF IdsInv, InOrder
<1> QED BY <1>1, <1>2 DEF IdsInv, OnlyMade, Kinds, I!Made

\* A request that is not for a new object finds the object it was made for.
LEMMA RequestFindsObject ==
  ASSUME IdsInv, requests # <<>>, NEW r, r = Head(requests), r.op # "new"
  PROVE  r.id \in I!Ids /\ resources[r.id] = r.obj /\ r.obj # 0
<1> USE DEF IdsInv
<1>1. r = requests[1] /\ 1 \in Positions(requests) /\ r \in Reqs(r.id)
  <2>1. r = requests[1] /\ 1 \in Positions(requests)
    BY DEF IdTypes, Positions
  <2> QED BY <2>1 DEF Reqs
<1>2. r.id \in I!Ids /\ r.obj # 0
  BY <1>1, Elements
<1>3. CASE r.id \in ClientIds
  <2>1. r.obj = Occupant(r.id) /\ resources[r.id] \in {0, Occupant(r.id)}
    BY <1>1, <1>3 DEF ClientId, OneOccupant
  <2>2. ~Asked(r.id, "new")
    <3> SUFFICES ASSUME NEW n \in Positions(requests), requests[n].id = r.id, requests[n].op = "new"
                 PROVE  FALSE
      BY DEF Asked, Reqs
    <3>1. n # 1 /\ 1 < n
      BY <1>1 DEF Positions
    <3> QED BY <3>1, <1>1 DEF InOrder
  <2>3. resources[r.id] # 0
    BY <1>1, <1>2, <1>3, <2>1, <2>2 DEF ClientId, Ended
  <2> QED BY <1>2, <2>1, <2>3
<1>4. CASE r.id \in ServerIds
  BY <1>1, <1>2, <1>4 DEF ServerId
<1> QED BY <1>2, <1>3, <1>4 DEF I!Ids

LEMMA HandleNewStep ==
  ASSUME IdsInv, requests # <<>>, requests' = Tail(requests), NEW r, r = Head(requests),
         r.op = "new", NEW u, u = r.id, I!HandleNew(r),
         UNCHANGED <<kind, proxies, zombies, deletedIds, skew, broken>>
  PROVE  IdsInv'
<1> USE Apart DEF IdsInv, I!Ids
<1>1. /\ requests' \in Seq(RequestTypes) /\ r \in RequestTypes /\ r \in Reqs(u)
      /\ \A i : i # u => Reqs(i)' = Reqs(i)
      /\ Reqs(u)' \subseteq Reqs(u) /\ \A q \in Reqs(u)' : q.op # "new"
  BY RequestTaken
<1>2. u \in ClientIds /\ Asked(u, "new") /\ r.obj \in Nat /\ r.obj # 0
  BY <1>1 DEF ServerId, Asked, RequestTypes
<1>3. /\ resources[u] = 0 /\ Evs(u) = {} /\ u \notin deletedIds /\ r.obj = Occupant(u)
      /\ r.obj <= I!Made
  <2>1. r.obj <= I!Made
    BY DEF OnlyMade, Positions, IdTypes
  <2> QED BY <2>1, <1>1, <1>2 DEF ClientId, OneOccupant, Unborn
<1>4. resources' = [resources EXCEPT ![u] = r.obj] /\ UNCHANGED <<events, refused>>
  BY <1>3 DEF I!HandleNew
<1>5. \A i : Evs(i)' = Evs(i)
  BY <1>4 DEF Evs, Positions
<1>6. IdTypes' /\ OnlyMade'
  <2>1. IdTypes'
    BY <1>1, <1>2, <1>4 DEF IdTypes, I!Made
  <2>2. \A i \in I!Ids : proxies'[i] <= Len(kind') /\ resources'[i] <= Len(kind')
    BY <1>3, <1>4 DEF OnlyMade, I!Made, IdTypes
  <2> QED BY <2>1, <2>2, <1>4, RequestTakenFrame DEF OnlyMade, I!Made, Positions
<1>7. EventShapes' /\ InOrder' /\ Kinds'
  <2>1. \A j \in ServerIds : resources'[j] = resources[j]
    BY <1>2, <1>4 DEF IdTypes
  <2>2. EventShapes'
    BY <1>4 DEF EventShapes, Positions
  <2>3. InOrder'
    BY <1>4, RequestTakenFrame DEF InOrder, Positions
  <2> QED BY <2>1, <2>2, <2>3, RequestTakenFrame DEF Kinds
<1>8. ASSUME NEW i \in ClientIds PROVE ClientId(i)'
  <2>1. CASE i = u
    <3>1. resources'[u] = r.obj /\ Occupant(u)' = Occupant(u) /\ Evs(u)' = {}
      BY <1>2, <1>3, <1>4, <1>5 DEF IdTypes, Occupant
    <3> QED BY <2>1, <3>1, <1>1, <1>2, <1>3
            DEF ClientId, OneOccupant, Unborn, Living, Ended, Seen, ByRequest, Asked, Acknowledged
  <2>2. CASE i # u
    <3>1. resources'[i] = resources[i]
      BY <2>2, <1>4 DEF IdTypes
    <3> QED BY <3>1, <2>2, <1>1, <1>5, ClientFrame
  <2> QED BY <2>1, <2>2
<1>9. ASSUME NEW j \in ServerIds PROVE ServerId(j)'
  <2>1. resources'[j] = resources[j] /\ Reqs(j)' = Reqs(j)
    BY <1>1, <1>2, <1>4 DEF IdTypes
  <2> QED BY <2>1, <1>4, ServerFrame
<1> QED BY <1>4, <1>6, <1>7, <1>8, <1>9

LEMMA HandleUseStep ==
  ASSUME IdsInv, requests # <<>>, requests' = Tail(requests), NEW r, r = Head(requests),
         r.op # "new", NEW u, u = r.id,
         UNCHANGED <<kind, proxies, zombies, deletedIds, resources, events, refused, skew, broken>>
  PROVE  IdsInv'
<1> USE Apart DEF IdsInv, I!Ids
<1>1. /\ requests' \in Seq(RequestTypes)
      /\ \A i : i # u => Reqs(i)' = Reqs(i)
      /\ Reqs(u)' \subseteq Reqs(u) /\ \A q \in Reqs(u)' : q.op # "new"
  BY RequestTaken
<1>2. \A i : Evs(i)' = Evs(i)
  BY DEF Evs, Positions
<1>3. u \in I!Ids /\ resources[u] # 0
  BY RequestFindsObject
<1>4. IdTypes' /\ OnlyMade'
  <2>1. IdTypes'
    BY <1>1 DEF IdTypes, I!Made
  <2> QED BY <2>1, RequestTakenFrame DEF OnlyMade, I!Made, Positions
<1>5. EventShapes' /\ InOrder' /\ Kinds'
  <2>1. EventShapes'
    BY DEF EventShapes, Positions
  <2>2. InOrder'
    BY RequestTakenFrame DEF InOrder, Positions
  <2> QED BY <2>1, <2>2, RequestTakenFrame DEF Kinds
<1>6. ASSUME NEW i \in ClientIds PROVE ClientId(i)'
  <2>1. CASE i = u
    BY <2>1, <1>1, <1>2, <1>3
    DEF ClientId, OneOccupant, Unborn, Living, Ended, Seen, ByRequest, Asked, Acknowledged, Occupant
  <2>2. CASE i # u
    BY <2>2, <1>1, <1>2, ClientFrame
  <2> QED BY <2>1, <2>2
<1>7. ASSUME NEW j \in ServerIds PROVE ServerId(j)'
  <2>1. CASE j = u
    <3>1. Evs(u)' = Evs(u) /\ (Unannounced(u)' <=> Unannounced(u))
      BY <1>2 DEF Unannounced, Announces, Positions
    <3> QED BY <2>1, <3>1, <1>1 DEF ServerId, Asked, Announces, Positions
  <2>2. CASE j # u
    BY <2>2, <1>1, ServerFrame
  <2> QED BY <2>1, <2>2
<1> QED BY <1>4, <1>5, <1>6, <1>7

\* The end of an object of the server's is not acknowledged, ...
LEMMA HandleDestroyServerStep ==
  ASSUME IdsInv, requests # <<>>, requests' = Tail(requests), NEW r, r = Head(requests),
         r.op = "destroy", NEW u, u = r.id, u \in ServerIds,
         resources' = [resources EXCEPT ![u] = 0],
         UNCHANGED <<kind, proxies, zombies, deletedIds, events, refused, skew, broken>>
  PROVE  IdsInv'
<1> USE Apart DEF IdsInv, I!Ids
<1>1. /\ requests' \in Seq(RequestTypes) /\ r \in Reqs(u)
      /\ \A i : i # u => Reqs(i)' = Reqs(i)
      /\ Reqs(u)' = {}
  BY RequestTaken
<1>2. \A i : Evs(i)' = Evs(i)
  BY DEF Evs, Positions
<1>3. IdTypes' /\ OnlyMade'
  <2>1. IdTypes'
    BY <1>1 DEF IdTypes, I!Made
  <2>2. \A i \in I!Ids : proxies'[i] <= Len(kind') /\ resources'[i] <= Len(kind')
    BY DEF OnlyMade, I!Made, IdTypes
  <2> QED BY <2>1, <2>2, RequestTakenFrame DEF OnlyMade, I!Made, Positions
<1>4. EventShapes' /\ InOrder' /\ Kinds'
  <2>1. EventShapes'
    BY DEF EventShapes, Positions
  <2>2. InOrder'
    BY RequestTakenFrame DEF InOrder, Positions
  <2>3. \A j \in ServerIds : resources'[j] \in {0, resources[j]}
    BY DEF IdTypes
  <2>4. \A n \in Positions(requests') : requests'[n].op # "new" => kind'[requests'[n].obj] = "normal"
    BY RequestTakenFrame
  <2>5. Kinds
    OBVIOUS
  <2>6. kind' = kind /\ proxies' = proxies
    OBVIOUS
  <2>7. Kinds'
    BY ONLY <2>3, <2>4, <2>5, <2>6 DEF Kinds
  <2> QED BY <2>1, <2>2, <2>7
<1>5. ASSUME NEW i \in ClientIds PROVE ClientId(i)'
  <2>1. i # u /\ resources'[i] = resources[i]
    BY DEF IdTypes
  <2> QED BY <2>1, <1>1, <1>2, ClientFrame
<1>6. ASSUME NEW j \in ServerIds PROVE ServerId(j)'
  <2>1. CASE j = u
    <3>1. proxies[u] = 0 /\ Unannounced(u) /\ resources'[u] = 0
      BY <1>1 DEF ServerId, Asked, IdTypes
    <3>2. Unannounced(u)' /\ \A n \in Positions(events)' : ~Announces(n, u)'
      BY <3>1 DEF Unannounced, Announces, Positions
    <3> QED BY <2>1, <3>1, <3>2, <1>1 DEF ServerId, Asked
  <2>2. CASE j # u
    <3>1. resources'[j] = resources[j]
      BY <2>2 DEF IdTypes
    <3> QED BY <3>1, <2>2, <1>1, ServerFrame
  <2> QED BY <2>1, <2>2
<1> QED BY <1>3, <1>4, <1>5, <1>6

\* ... that of one of the client's is.
LEMMA HandleDestroyClientStep ==
  ASSUME IdsInv, requests # <<>>, requests' = Tail(requests), NEW r, r = Head(requests),
         r.op = "destroy", NEW u, u = r.id, u \in ClientIds,
         resources' = [resources EXCEPT ![u] = 0],
         NEW e, e = I!DeleteMsg(u), events' = Append(events, e),
         UNCHANGED <<kind, proxies, zombies, deletedIds, refused, skew, broken>>
  PROVE  IdsInv'
<1> USE Apart DEF IdsInv, I!Ids
<1>1. /\ requests' \in Seq(RequestTypes) /\ r \in Reqs(u)
      /\ \A i : i # u => Reqs(i)' = Reqs(i)
      /\ Reqs(u)' = {}
  BY RequestTaken
<1>2. resources[u] # 0 /\ resources[u] \in Nat /\ resources[u] <= I!Made
  BY RequestFindsObject DEF IdTypes, OnlyMade
<1>3. /\ e \in EventTypesOf /\ e.id = u /\ e.op = "delete" /\ e.obj = resources[u] /\ e.fd = FALSE
      /\ e.other.id = 0 /\ e.other.obj = 0
  BY <1>2 DEF I!DeleteMsg, I!EventMsg, I!NoOther, EventTypesOf
<1>4. /\ events' \in Seq(EventTypesOf)
      /\ Len(events) \in Nat /\ Len(events') = Len(events) + 1
      /\ \A n \in 1 .. Len(events) : events'[n] = events[n]
      /\ events'[Len(events) + 1] = e
      /\ \A i : Evs(i)' = IF i = u THEN Evs(i) \cup {e} ELSE Evs(i)
  BY <1>3, EventSent
<1>6. IdTypes' /\ OnlyMade'
  <2>1. IdTypes'
    BY <1>1, <1>4 DEF IdTypes, I!Made
  <2>2. \A i \in I!Ids : proxies'[i] <= Len(kind') /\ resources'[i] <= Len(kind')
    BY DEF OnlyMade, I!Made, IdTypes
  <2>3. \A n \in Positions(events') :
          events'[n].obj <= Len(kind') /\ events'[n].other.obj <= Len(kind')
    BY SMTT(30), <1>2, <1>3, <1>4 DEF OnlyMade, I!Made, Positions, IdTypes
  <2> QED BY <2>1, <2>2, <2>3, RequestTakenFrame DEF OnlyMade, I!Made, Positions
<1>7. EventShapes' /\ InOrder' /\ Kinds'
  <2>1. EventShapes'
    BY <1>3, <1>4 DEF EventShapes, Positions
  <2>2. ASSUME NEW m \in Positions(events'), NEW n \in Positions(events'),
               m < n, events'[m].id = events'[n].id
        PROVE  events'[m].op # "delete"
    <3>1. m \in Positions(events) /\ events'[m] = events[m]
      BY <2>2, <1>4 DEF Positions
    <3>2. CASE n \in Positions(events)
      BY <2>2, <3>1, <3>2, <1>4 DEF InOrder, Positions
    <3>3. CASE n \notin Positions(events)
      <4>1. events'[n] = e
        BY <3>3, <1>4 DEF Positions
      <4>2. events[m] \in Evs(u)
        BY <4>1, <3>1, <2>2, <1>3 DEF Evs
      <4>3. ~Acknowledged(u)
        BY <1>2 DEF ClientId, Living
      <4> QED BY <4>2, <4>3, <3>1 DEF Acknowledged
    <3> QED BY <3>2, <3>3
  <2>3. InOrder'
    BY <2>2, RequestTakenFrame DEF InOrder, Positions
  <2>4. \A j \in ServerIds : resources'[j] = resources[j]
    BY DEF IdTypes
  <2> QED BY <2>1, <2>3, <2>4, RequestTakenFrame DEF Kinds
<1>8. ASSUME NEW i \in ClientIds PROVE ClientId(i)'
  <2>1. CASE i = u
    <3>1. resources'[u] = 0 /\ Occupant(u)' = Occupant(u) /\ e \in Evs(u)' /\ e.obj = Occupant(u)
      BY <1>2, <1>3, <1>4, <2>1 DEF IdTypes, Occupant, ClientId, OneOccupant
    <3>2. u \notin deletedIds /\ (proxies[u] # 0 => kind[proxies[u]] # "normal")
      BY <2>1, <1>1, <1>2 DEF ClientId, Living, ByRequest, Asked
    <3>3. \A f \in Evs(u)' : f.obj = Occupant(u)
      BY <2>1, <3>1, <1>4 DEF ClientId, OneOccupant
    <3> QED BY <2>1, <3>1, <3>2, <3>3, <1>1, <1>3
            DEF ClientId, OneOccupant, Unborn, Living, Ended, Seen, ByRequest, Asked, Acknowledged
  <2>2. CASE i # u
    <3>1. resources'[i] = resources[i]
      BY <2>2 DEF IdTypes
    <3> QED BY <3>1, <2>2, <1>1, <1>4, ClientFrame
  <2> QED BY <2>1, <2>2
<1>9. ASSUME NEW j \in ServerIds PROVE ServerId(j)'
  <2>1. j # u /\ resources'[j] = resources[j] /\ Reqs(j)' = Reqs(j)
    BY <1>1 DEF IdTypes
  <2>2. \A n \in Len(events) + 1 .. Len(events') :
           ~Announces(n, j)' /\ (events'[n].id = j => events'[n].obj = resources[j])
    BY <2>1, <1>3, <1>4 DEF Announces
  <2> QED BY <2>1, <2>2, <1>4, ServerSent
<1> QED BY <1>6, <1>7, <1>8, <1>9

LEMMA HandleRequestStep ==
  ASSUME IdsInv, I!HandleRequest
  PROVE  IdsInv'
<1> PICK r : r = Head(requests)
  OBVIOUS
<1> PICK u : u = r.id
  OBVIOUS
<1>1. /\ requests # <<>> /\ requests' = Tail(requests)
      /\ UNCHANGED <<kind, proxies, zombies, deletedIds, skew, broken>>
      /\ IF r.op = "new" THEN I!HandleNew(r) ELSE I!HandleOther(r)
  BY DEF I!HandleRequest, I!clientVars
<1>2. CASE r.op = "new"
  BY <1>1, <1>2, HandleNewStep
<1>3. CASE r.op = "destroy"
  <2>1. u \in ClientIds \cup ServerIds /\ resources[u] # 0
    BY <1>1, <1>3, RequestFindsObject DEF I!Ids
  <2>2. /\ resources' = [resources EXCEPT ![u] = 0] /\ refused' = refused
        /\ events' = events \o I!Acknowledgement(u)
    BY <1>1, <1>3, <2>1 DEF I!HandleOther, I!DestroyResource
  <2>3. CASE u \in ClientIds
    <3> PICK e : e = I!DeleteMsg(u)
      OBVIOUS
    <3>1. events' = events \o <<e>>
      BY <2>2, <2>3 DEF I!Acknowledgement
    <3>2. events' = Append(events, e)
      BY <3>1 DEF IdsInv, IdTypes
    <3> QED BY <3>2, <2>2, <2>3, <1>1, <1>3, HandleDestroyClientStep
  <2>4. CASE u \in ServerIds
    <3>1. events' = events \o <<>>
      BY <2>2, <2>4, Apart DEF I!Acknowledgement
    <3>2. events' = events
      BY <3>1 DEF IdsInv, IdTypes
    <3> QED BY <3>2, <2>2, <2>4, <1>1, <1>3, HandleDestroyServerStep
  <2> QED BY <2>1, <2>3, <2>4
<1>4. CASE r.op # "new" /\ r.op # "destroy"
  <2>1. resources[u] # 0
    BY <1>1, <1>4, RequestFindsObject
  <2>2. UNCHANGED <<resources, events, refused>>
    BY <1>1, <1>4, <2>1 DEF I!HandleOther
  <2> QED BY <2>2, <1>1, <1>4, HandleUseStep
<1> QED BY <1>2, <1>3, <1>4

\* An event about a living object that neither announces nor ends one.
LEMMA EventSentStep ==
  ASSUME IdsInv, NEW e \in EventTypesOf, events' = Append(events, e),
         e.op \notin {"new", "delete"}, NEW u \in I!Ids, u = e.id,
         resources[u] # 0, e.obj = resources[u], e.fd => u \in ClientIds,
         e.other.obj <= I!Made,
         UNCHANGED <<kind, proxies, zombies, deletedIds, resources, requests, refused, skew, broken>>
  PROVE  IdsInv'
<1> USE Apart DEF IdsInv, I!Ids
<1>1. /\ events' \in Seq(EventTypesOf)
      /\ Len(events) \in Nat /\ Len(events') = Len(events) + 1
      /\ \A n \in 1 .. Len(events) : events'[n] = events[n]
      /\ events'[Len(events) + 1] = e
      /\ \A i : Evs(i)' = IF i = u THEN Evs(i) \cup {e} ELSE Evs(i)
  BY EventSent
<1>2. \A i : Reqs(i)' = Reqs(i)
  BY DEF Reqs, Positions
<1>3. IdTypes' /\ OnlyMade'
  <2>1. IdTypes'
    BY <1>1 DEF IdTypes, I!Made
  <2>2. \A n \in Positions(events') :
          events'[n].obj <= Len(kind') /\ events'[n].other.obj <= Len(kind')
    BY <1>1 DEF OnlyMade, I!Made, Positions
  <2> QED BY <2>1, <2>2 DEF OnlyMade, I!Made, Positions
<1>4. EventShapes' /\ InOrder' /\ Kinds'
  <2>1. EventShapes'
    BY <1>1 DEF EventShapes, Positions
  <2>2. ASSUME NEW m \in Positions(events'), NEW n \in Positions(events'),
               m < n, events'[m].id = events'[n].id
        PROVE  events'[m].op # "delete"
    <3>1. m \in Positions(events) /\ events'[m] = events[m]
      BY <2>2, <1>1 DEF Positions
    <3>2. CASE n \in Positions(events)
      BY <2>2, <3>1, <3>2, <1>1 DEF InOrder, Positions
    <3>3. CASE n \notin Positions(events)
      <4>1. events'[n] = e
        BY <3>3, <1>1 DEF Positions
      <4>2. events[m] \in Evs(u)
        BY <4>1, <3>1, <2>2 DEF Evs
      <4>3. events[m].op = "delete" => u \in ClientIds
        BY <4>1, <3>1, <2>2 DEF EventShapes
      <4>4. u \in ClientIds => ~Acknowledged(u)
        BY DEF ClientId, Living
      <4> QED BY <4>2, <4>3, <4>4, <3>1 DEF Acknowledged
    <3> QED BY <3>2, <3>3
  <2>3. InOrder'
    BY <2>2 DEF InOrder, Positions
  <2> QED BY <2>1, <2>3 DEF Kinds, Positions
<1>5. ASSUME NEW i \in ClientIds PROVE ClientId(i)'
  <2>1. CASE i = u
    <3>1. u \notin deletedIds /\ ~Asked(u, "new") /\ e.obj = Occupant(u)
      BY <2>1 DEF ClientId, OneOccupant, Unborn, Living
    <3>2. Acknowledged(u)' <=> Acknowledged(u)
      BY <1>1 DEF Acknowledged
    <3>3. /\ Evs(u)' = Evs(u) \cup {e} /\ Reqs(u)' = Reqs(u) /\ Occupant(u)' = Occupant(u)
          /\ \A op : Asked(u, op)' <=> Asked(u, op)
      BY <1>1, <1>2 DEF Occupant, Asked
    <3>4. ClientId(u)
      BY <2>1
    <3>5. OneOccupant(u)'
      BY <3>1, <3>3, <3>4 DEF ClientId, OneOccupant
    <3>6. Unborn(u)' /\ Living(u)'
      BY <3>1, <3>2, <3>3, <3>4 DEF ClientId, Unborn, Living
    <3>7. Ended(u)' /\ Seen(u)'
      BY <3>1, <3>2, <3>3, <3>4 DEF ClientId, Ended, Seen
    <3>8. ByRequest(u)'
      BY <3>1, <3>3, <3>4 DEF ClientId, ByRequest
    <3> QED BY <2>1, <3>5, <3>6, <3>7, <3>8 DEF ClientId
  <2>2. CASE i # u
    BY <2>2, <1>1, <1>2, ClientFrame
  <2> QED BY <2>1, <2>2
<1>6. ASSUME NEW j \in ServerIds PROVE ServerId(j)'
  <2>1. \A n \in Len(events) + 1 .. Len(events') :
           ~Announces(n, j)' /\ (events'[n].id = j => events'[n].obj = resources[j])
    BY <1>1 DEF Announces
  <2> QED BY <2>1, <1>1, <1>2, ServerSent
<1> QED BY <1>3, <1>4, <1>5, <1>6

LEMMA SendEventStep ==
  ASSUME IdsInv, NEW i \in I!Ids, NEW fd \in BOOLEAN, I!SendEvent(i, fd)
  PROVE  IdsInv'
<1> DEFINE e == I!EventMsg("event", i, resources[i], fd, I!NoOther)
<1>1. /\ resources[i] # 0 /\ (fd => i \in ClientIds) /\ events' = events \o <<e>>
      /\ UNCHANGED <<kind, proxies, zombies, deletedIds, resources, requests, refused, skew, broken>>
  BY DEF I!SendEvent, I!Send, I!clientVars
<1>2. events' = Append(events, e)
  BY <1>1, Joined, Zenon DEF IdsInv, IdTypes
<1>3. e \in EventTypesOf /\ e.op = "event" /\ e.id = i /\ e.obj = resources[i] /\ e.fd = fd /\ e.other.obj = 0
  BY <1>1 DEF I!EventMsg, I!NoOther, EventTypesOf, IdsInv, IdTypes
<1>4. 0 <= I!Made
  BY DEF IdsInv, IdTypes, I!Made
<1> HIDE DEF e
<1> QED BY <1>1, <1>2, <1>3, <1>4, EventSentStep

LEMMA SendMentionStep ==
  ASSUME IdsInv, NEW i \in ClientIds, NEW j \in ClientIds, I!SendMention(i, j)
  PROVE  IdsInv'
<1> DEFINE e == I!EventMsg("mention", i, resources[i], FALSE, [id |-> j, obj |-> resources[j]])
<1>0. i \in I!Ids /\ j \in I!Ids
  BY DEF I!Ids
<1>1. /\ resources[i] # 0 /\ events' = events \o <<e>>
      /\ UNCHANGED <<kind, proxies, zombies, deletedIds, resources, requests, refused, skew, broken>>
  BY DEF I!SendMention, I!Send, I!clientVars
<1>2. events' = Append(events, e)
  BY <1>1, Joined, Zenon DEF IdsInv, IdTypes
<1>3. /\ e \in EventTypesOf /\ e.op = "mention" /\ e.id = i /\ e.obj = resources[i] /\ ~e.fd
      /\ e.other.obj = resources[j]
  BY <1>0, <1>1 DEF I!EventMsg, EventTypesOf, IdsInv, IdTypes
<1>4. resources[j] <= I!Made
  BY <1>0 DEF IdsInv, OnlyMade
<1> HIDE DEF e
<1> QED BY <1>0, <1>1, <1>2, <1>3, <1>4, EventSentStep

\* A new object of the server's gets an id that nothing is under way for.
LEMMA SendNewStep ==
  ASSUME IdsInv, NEW u \in ClientIds, NEW v \in ServerIds, I!SendNew(u, v)
  PROVE  IdsInv'
<1> DEFINE e == I!EventMsg("new", u, resources[u], FALSE, [id |-> v, obj |-> I!Made + 1])
<1> USE Apart DEF IdsInv, I!Ids
<1>1. /\ I!Made < MaxObjects /\ resources[u] # 0 /\ resources[v] = 0 /\ events' = events \o <<e>>
      /\ kind' = Append(kind, "normal") /\ resources' = [resources EXCEPT ![v] = I!Made + 1]
      /\ UNCHANGED <<proxies, zombies, deletedIds, requests, refused, skew, broken>>
  BY DEF I!SendNew, I!Send, I!clientVars, I!ServerAllocatable
<1>2. /\ kind' \in Seq({"normal", "once"}) /\ I!Made \in Nat /\ Len(kind') = I!Made + 1
      /\ kind'[I!Made + 1] = "normal" /\ \A o \in 1 .. I!Made : kind'[o] = kind[o]
  BY <1>1 DEF IdTypes, I!Made
<1>3. events' = Append(events, e)
  BY <1>1, Joined, Zenon DEF IdTypes
<1>4. /\ e \in EventTypesOf /\ e.op = "new" /\ e.id = u /\ e.obj = resources[u] /\ e.fd = FALSE
      /\ e.other.id = v /\ e.other.obj = I!Made + 1
  BY <1>1, <1>2 DEF I!EventMsg, EventTypesOf, IdTypes
<1> HIDE DEF e
<1>5. /\ events' \in Seq(EventTypesOf)
      /\ Len(events) \in Nat /\ Len(events') = Len(events) + 1
      /\ \A n \in 1 .. Len(events) : events'[n] = events[n]
      /\ events'[Len(events) + 1] = e
      /\ \A i : Evs(i)' = IF i = u THEN Evs(i) \cup {e} ELSE Evs(i)
  BY <1>3, <1>4, EventSent
<1>6. \A i : Reqs(i)' = Reqs(i)
  BY <1>1 DEF Reqs, Positions
<1>7. proxies[v] = 0 /\ Unannounced(v) /\ Reqs(v) = {}
  <2>1. proxies[v] = 0 /\ Unannounced(v) /\ \A r \in Reqs(v) : r.obj = 0
    BY <1>1 DEF ServerId
  <2> QED BY <2>1, Elements DEF Reqs
<1>8. /\ resources' \in [I!Ids -> Nat] /\ resources'[v] = I!Made + 1
      /\ \A i \in I!Ids : i # v => resources'[i] = resources[i]
  BY <1>1, <1>2 DEF IdTypes
<1>9. IdTypes'
  <2>1. I!Made + 1 <= MaxObjects
    BY <1>1, <1>2, IdsAssumption
  <2> QED BY <2>1, <1>1, <1>2, <1>5, <1>8 DEF IdTypes, I!Made
<1>10. OnlyMade'
  <2>1. \A i \in I!Ids : proxies[i] \in Nat /\ resources[i] \in Nat
                         /\ proxies[i] <= I!Made /\ resources[i] <= I!Made
    BY DEF IdTypes, OnlyMade
  <2>2. \A i \in I!Ids : proxies'[i] <= I!Made + 1 /\ resources'[i] <= I!Made + 1
    BY <2>1, <1>1, <1>2, <1>8
  <2>3. \A i \in ClientIds : zombies'[i] <= I!Made + 1
    BY <1>1, <1>2 DEF IdTypes, OnlyMade
  <2>4. \A n \in Positions(requests') : requests'[n].obj <= I!Made + 1
    BY <1>1, <1>2, Elements DEF OnlyMade, Positions
  <2>5. ASSUME NEW n \in Positions(events')
        PROVE  events'[n].obj <= I!Made + 1 /\ events'[n].other.obj <= I!Made + 1
    <3>1. CASE n \in Positions(events)
      <4>1. events'[n] = events[n]
        BY <3>1, <1>5 DEF Positions
      <4> QED BY <4>1, <3>1, <1>2, Elements DEF OnlyMade
    <3>2. CASE n \notin Positions(events)
      <4>1. events'[n] = e
        BY <3>2, <1>5 DEF Positions
      <4> QED BY <4>1, <1>2, <1>4, <2>1
    <3> QED BY <3>1, <3>2
  <2> QED BY <2>2, <2>3, <2>4, <2>5, <1>2 DEF OnlyMade, I!Made
<1>11. EventShapes'
  BY <1>2, <1>4, <1>5 DEF EventShapes, Positions
<1>12. InOrder'
  <2>1. ASSUME NEW m \in Positions(events'), NEW n \in Positions(events'),
               m < n, events'[m].id = events'[n].id
        PROVE  events'[m].op # "delete"
    <3>1. m \in Positions(events) /\ events'[m] = events[m]
      BY <2>1, <1>5 DEF Positions
    <3>2. CASE n \in Positions(events)
      BY <2>1, <3>1, <3>2, <1>5 DEF InOrder, Positions
    <3>3. CASE n \notin Positions(events)
      <4>1. events'[n] = e
        BY <3>3, <1>5 DEF Positions
      <4>2. events[m] \in Evs(u)
        BY <4>1, <3>1, <2>1, <1>4 DEF Evs
      <4>3. ~Acknowledged(u)
        BY <1>1 DEF ClientId, Living
      <4> QED BY <4>2, <4>3, <3>1 DEF Acknowledged
    <3> QED BY <3>2, <3>3
  <2> QED BY <2>1, <1>1 DEF InOrder, Positions
<1>13. Kinds'
  <2>1. \A i \in I!Ids : /\ proxies[i] # 0 => proxies[i] \in 1 .. I!Made
                         /\ resources[i] # 0 => resources[i] \in 1 .. I!Made
    BY <1>2 DEF IdTypes, OnlyMade
  <2>2. \A n \in Positions(requests) : requests[n].obj \in 1 .. I!Made
    BY <1>2, Elements DEF OnlyMade
  <2>3. \A n \in Positions(requests') :
          requests'[n].op # "new" => kind'[requests'[n].obj] = "normal"
    BY <2>2, <1>1, <1>2 DEF Kinds, Positions
  <2>4. ASSUME NEW j \in ServerIds
        PROVE  /\ proxies'[j] # 0 => kind'[proxies'[j]] = "normal"
               /\ resources'[j] # 0 => kind'[resources'[j]] = "normal"
    <3>1. proxies'[j] # 0 => kind'[proxies'[j]] = "normal"
      BY <2>1, <1>1, <1>2 DEF Kinds
    <3>2. CASE j = v
      BY <3>1, <3>2, <1>2, <1>8
    <3>3. CASE j # v
      BY <3>1, <3>3, <2>1, <1>2, <1>8 DEF Kinds
    <3> QED BY <3>2, <3>3
  <2> QED BY <2>3, <2>4 DEF Kinds
<1>14. ASSUME NEW i \in ClientIds PROVE ClientId(i)'
  <2>1. /\ proxies'[i] = proxies[i] /\ zombies'[i] = zombies[i] /\ resources'[i] = resources[i]
        /\ (i \in deletedIds' <=> i \in deletedIds)
        /\ proxies[i] # 0 => kind'[proxies[i]] = kind[proxies[i]]
    BY <1>1, <1>2, <1>8 DEF IdTypes, OnlyMade
  <2>2. CASE i = u
    <3>1. u \notin deletedIds /\ ~Asked(u, "new") /\ e.obj = Occupant(u)
      BY <2>2, <1>1, <1>4 DEF ClientId, OneOccupant, Unborn, Living
    <3>2. Acknowledged(u)' <=> Acknowledged(u)
      BY <1>4, <1>5 DEF Acknowledged
    <3> QED BY <2>1, <2>2, <3>1, <3>2, <1>5, <1>6
            DEF ClientId, OneOccupant, Unborn, Living, Ended, Seen, ByRequest, Asked, Occupant
  <2>3. CASE i # u
    BY <2>1, <2>3, <1>5, <1>6, ClientFrame
  <2> QED BY <2>2, <2>3
<1>15. ASSUME NEW j \in ServerIds PROVE ServerId(j)'
  <2>1. CASE j = v
    <3>1. \A n \in Positions(events)' :
            Announces(n, v)' => n = Len(events) + 1 /\ events'[n].other.obj = I!Made + 1
      BY <1>4, <1>5, <1>7 DEF Unannounced, Announces, Positions
    <3>2. \A n \in Positions(events)' : n <= Len(events) + 1 /\ n \in Nat
      BY <1>5 DEF Positions
    <3>3. /\ proxies'[v] = 0 /\ resources'[v] = I!Made + 1 /\ I!Made + 1 # 0 /\ Reqs(v)' = {}
      BY <1>1, <1>2, <1>6, <1>7, <1>8
    <3>4. ASSUME NEW n \in Positions(events)', Announces(n, v)'
          PROVE  /\ events'[n].other.obj = resources'[v]
                 /\ \A m \in Positions(events)' : ~(m > n)
      BY <3>1, <3>2, <3>3, <3>4, <1>5
    <3> QED BY <2>1, <3>3, <3>4 DEF ServerId, Asked
  <2>2. CASE j # v
    <3>1. \A n \in Len(events) + 1 .. Len(events') :
             ~Announces(n, j)' /\ (events'[n].id = j => events'[n].obj = resources[j])
      BY <2>2, <1>4, <1>5 DEF Announces
    <3>2. proxies'[j] = proxies[j] /\ resources'[j] = resources[j]
      BY <2>2, <1>1, <1>8
    <3> QED BY <3>1, <3>2, <1>5, <1>6, ServerSent
  <2> QED BY <2>1, <2>2
<1> QED BY <1>1, <1>9, <1>10, <1>11, <1>12, <1>13, <1>14, <1>15

LEMMA EventsSent ==
  ASSUME IdTypes, NEW d \in EventTypesOf, NEW e \in EventTypesOf, d.id = e.id,
         events' = events \o (<<d>> \o <<e>>)
  PROVE  /\ events' \in Seq(EventTypesOf)
         /\ Len(events) \in Nat /\ Len(events') = Len(events) + 2
         /\ \A n \in 1 .. Len(events) : events'[n] = events[n]
         /\ events'[Len(events) + 1] = d /\ events'[Len(events) + 2] = e
         /\ \A i : Evs(i)' = IF i = e.id THEN Evs(i) \cup {d, e} ELSE Evs(i)
<1>1. /\ events' \in Seq(EventTypesOf)
      /\ Len(events) \in Nat /\ Len(events') = Len(events) + 2
      /\ \A n \in 1 .. Len(events) : events'[n] = events[n]
      /\ events'[Len(events) + 1] = d /\ events'[Len(events) + 2] = e
  <2> DEFINE both == <<d>> \o <<e>>
  <2>1. both \in Seq(EventTypesOf) /\ Len(both) = 2 /\ both[1] = d /\ both[2] = e
    OBVIOUS
  <2> HIDE DEF both
  <2>2. events \in Seq(EventTypesOf) /\ events' = events \o both
    BY DEF IdTypes, both
  <2> QED BY <2>1, <2>2
<1>2. ASSUME NEW i PROVE Evs(i)' = IF i = e.id THEN Evs(i) \cup {d, e} ELSE Evs(i)
  <2>1. \A n \in Positions(events') :
          \/ n \in Positions(events) /\ events'[n] = events[n]
          \/ events'[n] \in {d, e}
    BY <1>1 DEF Positions
  <2>2. /\ \A n \in Positions(events) : n \in Positions(events') /\ events'[n] = events[n]
        /\ Len(events) + 1 \in Positions(events') /\ Len(events) + 2 \in Positions(events')
    BY <1>1 DEF Positions
  <2>3. ASSUME NEW n \in Positions(events'), events'[n].id = i
        PROVE  events'[n] \in Evs(i) \/ (i = e.id /\ events'[n] \in {d, e})
    BY <2>1, <2>3 DEF Evs
  <2>3a. Evs(i)' \subseteq IF i = e.id THEN Evs(i) \cup {d, e} ELSE Evs(i)
    BY <2>3 DEF Evs, Positions
  <2>4. Evs(i) \subseteq Evs(i)'
    BY <2>2 DEF Evs
  <2>5. i = e.id => d \in Evs(i)' /\ e \in Evs(i)'
    BY <1>1, <2>2 DEF Evs
  <2> QED BY <2>3a, <2>4, <2>5
<1> QED BY <1>1, <1>2

\* A callback ends with its only event: no request is under way for it.
LEMMA FinishStep ==
  ASSUME IdsInv, NEW u \in I!Ids, I!Finish(u)
  PROVE  IdsInv'
<1> DEFINE d == I!EventMsg("done", u, resources[u], FALSE, I!NoOther)
           e == I!DeleteMsg(u)
<1> USE Apart DEF IdsInv, I!Ids
<1>1. /\ resources[u] # 0 /\ kind[resources[u]] = "once"
      /\ resources' = [resources EXCEPT ![u] = 0]
      /\ events' = events \o (<<d>> \o I!Acknowledgement(u))
      /\ UNCHANGED <<kind, proxies, zombies, deletedIds, requests, refused, skew, broken>>
  BY DEF I!Finish, I!Send, I!clientVars, I!DestroyResource
<1>2. u \in ClientIds
  BY <1>1 DEF Kinds
<1>3. events' = events \o (<<d>> \o <<e>>)
  <2>1. I!Acknowledgement(u) = <<e>>
    BY <1>2 DEF I!Acknowledgement
  <2> HIDE DEF d, e
  <2> QED BY <1>1, <2>1, Zenon
<1>4. /\ d \in EventTypesOf /\ d.op = "done" /\ d.id = u /\ d.obj = resources[u] /\ d.fd = FALSE
      /\ d.other.id = 0 /\ d.other.obj = 0
      /\ e \in EventTypesOf /\ e.op = "delete" /\ e.id = u /\ e.obj = resources[u] /\ e.fd = FALSE
      /\ e.other.id = 0 /\ e.other.obj = 0
  BY <1>1, <1>2 DEF I!EventMsg, I!DeleteMsg, I!NoOther, EventTypesOf, IdTypes
<1> HIDE DEF d, e
<1>5. /\ events' \in Seq(EventTypesOf)
      /\ Len(events) \in Nat /\ Len(events') = Len(events) + 2
      /\ \A n \in 1 .. Len(events) : events'[n] = events[n]
      /\ events'[Len(events) + 1] = d /\ events'[Len(events) + 2] = e
      /\ \A i : Evs(i)' = IF i = u THEN Evs(i) \cup {d, e} ELSE Evs(i)
  BY <1>3, <1>4, EventsSent
<1>6. \A i : Reqs(i)' = Reqs(i)
  BY <1>1 DEF Reqs, Positions
<1>7. \A n \in Positions(events') :
        (n \in Positions(events) /\ events'[n] = events[n]) \/ events'[n] = d \/ events'[n] = e
  BY <1>5 DEF Positions
<1>8. /\ resources' \in [I!Ids -> Nat] /\ resources'[u] = 0
      /\ \A i \in I!Ids : i # u => resources'[i] = resources[i]
  BY <1>1 DEF IdTypes
<1>9. /\ resources[u] = Occupant(u) /\ u \notin deletedIds
      /\ ~Asked(u, "new") /\ ~Acknowledged(u)
  BY <1>1, <1>2 DEF ClientId, OneOccupant, Unborn, Living
<1>10. Reqs(u) = {}
  <2>1. \A r \in Reqs(u) : r.obj = resources[u] /\ r.op # "new"
    BY <1>2, <1>9 DEF ClientId, OneOccupant, Asked
  <2>2. \A r \in Reqs(u) : r.op # "new" => kind[r.obj] = "normal"
    BY DEF Kinds, Reqs
  <2> QED BY <1>1, <2>1, <2>2
<1>11. IdTypes' /\ OnlyMade'
  <2>1. IdTypes'
    BY <1>1, <1>5, <1>8 DEF IdTypes, I!Made
  <2>2. 0 <= I!Made /\ resources[u] <= I!Made
    BY DEF OnlyMade, IdTypes, I!Made
  <2>3. \A n \in Positions(events') :
          events'[n].obj <= I!Made /\ events'[n].other.obj <= I!Made
    BY <1>4, <1>7, <2>2 DEF OnlyMade
  <2>4. \A i \in I!Ids : resources'[i] <= I!Made
    BY <1>8, <2>2 DEF OnlyMade
  <2> QED BY <2>1, <2>3, <2>4, <1>1 DEF OnlyMade, I!Made, Positions
<1>12. EventShapes'
  BY <1>1, <1>2, <1>4, <1>7 DEF EventShapes, Positions
<1>13. InOrder'
  <2>1. ASSUME NEW m \in Positions(events'), NEW n \in Positions(events'),
               m < n, events'[m].id = events'[n].id
        PROVE  events'[m].op # "delete"
    <3>1. m # Len(events) + 2 /\ (n \in Positions(events) => m \in Positions(events))
      BY <2>1, <1>5 DEF Positions
    <3>2. CASE n \in Positions(events)
      BY <2>1, <3>1, <3>2, <1>5 DEF InOrder, Positions
    <3>3. CASE m \in Positions(events) /\ n \notin Positions(events)
      <4>1. events'[n].id = u /\ events'[m] = events[m]
        BY <3>3, <1>4, <1>5, <1>7 DEF Positions
      <4>2. events[m] \in Evs(u)
        BY <4>1, <3>3, <2>1 DEF Evs
      <4> QED BY <4>1, <4>2, <1>9 DEF Acknowledged
    <3>4. CASE m \notin Positions(events)
      <4>1. events'[m] = d
        BY <3>1, <3>4, <1>5 DEF Positions
      <4> QED BY <4>1, <1>4
    <3> QED BY <3>1, <3>2, <3>3, <3>4
  <2> QED BY <2>1, <1>1 DEF InOrder, Positions
<1>14. Kinds'
  BY <1>1, <1>2, <1>8 DEF Kinds, Positions
<1>15. ASSUME NEW i \in ClientIds PROVE ClientId(i)'
  <2>1. CASE i = u
    <3>1. e \in Evs(u)' /\ e.op = "delete" /\ Occupant(u)' = Occupant(u) /\ Reqs(u)' = {}
      BY <1>1, <1>4, <1>5, <1>6, <1>10 DEF Occupant
    <3>2. \A f \in Evs(u)' : f.obj = Occupant(u)
      BY <1>2, <1>4, <1>5, <1>9 DEF ClientId, OneOccupant
    <3>3. proxies[u] # 0 => kind[proxies[u]] = "once"
      BY <1>1, <1>9 DEF Occupant
    <3> QED BY <2>1, <3>1, <3>2, <3>3, <1>1, <1>8, <1>9
            DEF ClientId, OneOccupant, Unborn, Living, Ended, Seen, ByRequest, Asked, Acknowledged
  <2>2. CASE i # u
    BY <2>2, <1>1, <1>5, <1>6, <1>8, ClientFrame
  <2> QED BY <2>1, <2>2
<1>16. ASSUME NEW j \in ServerIds PROVE ServerId(j)'
  <2>1. \A n \in Len(events) + 1 .. Len(events') : events'[n] = d \/ events'[n] = e
    BY <1>5
  <2>2. \A n \in Len(events) + 1 .. Len(events') :
           ~Announces(n, j)' /\ (events'[n].id = j => events'[n].obj = resources[j])
    BY <2>1, <1>2, <1>4 DEF Announces
  <2>3. Len(events) <= Len(events') /\ Len(events') \in Nat
    BY <1>5
  <2>4. proxies'[j] = proxies[j] /\ resources'[j] = resources[j]
    BY <1>1, <1>2, <1>8
  <2> QED BY <2>2, <2>3, <2>4, <1>5, <1>6, ServerSent
<1> QED BY <1>1, <1>11, <1>12, <1>13, <1>14, <1>15, <1>16

-----------------------------------------------------------------------------
LEMMA IdsInit == I!Init => IdsInv
<1> SUFFICES ASSUME I!Init PROVE IdsInv
  OBVIOUS
<1> USE DEF I!Init
<1>1. /\ kind = <<>> /\ requests = <<>> /\ events = <<>>
      /\ Len(kind) = 0 /\ Positions(requests) = {} /\ Positions(events) = {}
  BY DEF Positions
<1>2. /\ \A i \in I!Ids : proxies[i] = 0 /\ resources[i] = 0
      /\ \A i \in ClientIds : i \in I!Ids /\ zombies[i] = 0
      /\ \A j \in ServerIds : j \in I!Ids
  BY DEF I!Ids
<1>3. \A i : Reqs(i) = {} /\ Evs(i) = {}
  BY <1>1 DEF Reqs, Evs
<1>4. IdTypes
  <2>1. 0 <= MaxObjects
    BY IdsAssumption
  <2>2. proxies \in [I!Ids -> Nat] /\ zombies \in [ClientIds -> Nat] /\ resources \in [I!Ids -> Nat]
    OBVIOUS
  <2>3. kind \in Seq({"normal", "once"}) /\ requests \in Seq(RequestTypes) /\ events \in Seq(EventTypesOf)
    BY <1>1
  <2> QED BY <2>1, <2>2, <2>3, <1>1 DEF IdTypes, I!Made
<1>5. OnlyMade /\ EventShapes /\ InOrder /\ Kinds
  BY <1>1, <1>2 DEF OnlyMade, EventShapes, InOrder, Kinds, I!Made
<1>6. \A i \in ClientIds : ClientId(i)
  BY <1>2, <1>3
  DEF ClientId, OneOccupant, Unborn, Living, Ended, Seen, ByRequest, Asked, Acknowledged, Occupant
<1>7. \A j \in ServerIds : ServerId(j)
  BY <1>1, <1>2, <1>3 DEF ServerId, Asked, Unannounced
<1> QED BY <1>4, <1>5, <1>6, <1>7 DEF IdsInv

LEMMA IdsStep == IdsInv /\ [I!Next]_idVars => IdsInv'
<1> SUFFICES ASSUME IdsInv, [I!Next]_idVars PROVE IdsInv'
  OBVIOUS
<1>1. CASE UNCHANGED idVars
  <2>1. (\A i : Reqs(i)' = Reqs(i)) /\ (\A i : Evs(i)' = Evs(i))
    BY <1>1 DEF idVars, Reqs, Evs, Positions
  <2>2. \A i \in ClientIds : ClientId(i)'
    BY <1>1, <2>1, ClientFrame DEF IdsInv, idVars
  <2>3. \A j \in ServerIds : ServerId(j)'
    BY <1>1, <2>1, ServerFrame DEF IdsInv, idVars
  <2>4. IdTypes' /\ OnlyMade' /\ EventShapes' /\ InOrder' /\ Kinds'
    BY <1>1 DEF IdsInv, idVars, IdTypes, OnlyMade, EventShapes, InOrder, Kinds, I!Made, Positions
  <2> QED BY <1>1, <2>2, <2>3, <2>4 DEF IdsInv, idVars
<1>2. ASSUME NEW i \in ClientIds, NEW k \in {"normal", "once"}, I!Create(i, k) PROVE IdsInv'
  BY <1>2, CreateStep
<1>3. ASSUME NEW i \in I!Ids, I!Destroy(i) \/ I!Drop(i) \/ I!Use(i) PROVE IdsInv'
  BY <1>3, DestroyStep, DropStep, UseStep
<1>4. CASE I!DispatchEvent
  BY <1>4, DispatchStep
<1>5. CASE I!HandleRequest
  BY <1>5, HandleRequestStep
<1>6. ASSUME NEW i \in I!Ids, NEW fd \in BOOLEAN, I!SendEvent(i, fd) PROVE IdsInv'
  BY <1>6, SendEventStep
<1>7. ASSUME NEW i \in ClientIds, NEW j \in ServerIds, I!SendNew(i, j) PROVE IdsInv'
  BY <1>7, SendNewStep
<1>8. ASSUME NEW i \in ClientIds, NEW j \in ClientIds, I!SendMention(i, j) PROVE IdsInv'
  BY <1>8, SendMentionStep
<1>9. ASSUME NEW i \in I!Ids, I!Finish(i) PROVE IdsInv'
  BY <1>9, FinishStep
<1> QED BY <1>1, <1>2, <1>3, <1>4, <1>5, <1>6, <1>7, <1>8, <1>9
        DEF I!Next, I!ClientStep, I!ServerStep

\* An event that is next belongs to the object its id has, or to none.
LEMMA IdsSound == IdsInv => I!TypeOK
                            /\ I!EventsReachTheirObject /\ I!RequestsReachTheirObject
                            /\ I!NoDescriptorLeftOver /\ I!ZombiesAreOwed
<1> SUFFICES ASSUME IdsInv
             PROVE  I!TypeOK /\ I!EventsReachTheirObject /\ I!RequestsReachTheirObject
                    /\ I!NoDescriptorLeftOver /\ I!ZombiesAreOwed
  OBVIOUS
<1> USE DEF IdsInv
<1>1. I!TypeOK
  <2>1. \A i \in I!Ids : proxies[i] \in I!Id0 /\ resources[i] \in I!Id0
    BY IdsAssumption DEF IdTypes, OnlyMade, I!Id0, I!Objects, I!Made
  <2>2. \A i \in ClientIds : zombies[i] \in I!Id0
    BY IdsAssumption DEF IdTypes, OnlyMade, I!Id0, I!Objects, I!Made
  <2>3. proxies \in [I!Ids -> I!Id0] /\ resources \in [I!Ids -> I!Id0] /\ zombies \in [ClientIds -> I!Id0]
    BY <2>1, <2>2 DEF IdTypes
  <2> QED BY <2>3 DEF IdTypes, I!TypeOK
<1>2. I!EventsReachTheirObject
  <2>1. ASSUME NEW n \in 1 .. Len(events), events[n].id \in ClientIds
        PROVE  proxies[events[n].id] \in {0, events[n].obj}
    <3>1. events[n] \in Evs(events[n].id)
      BY DEF Evs, Positions
    <3> QED BY <2>1, <3>1 DEF ClientId, OneOccupant, Occupant
  <2>2. ASSUME events # <<>>
        PROVE  proxies[Head(events).id] \in {0, Head(events).obj}
    <3>1. Head(events) = events[1] /\ 1 \in Positions(events)
      BY <2>2 DEF IdTypes, Positions
    <3>2. events[1] \in Evs(events[1].id) /\ events[1].id \in ClientIds \cup ServerIds
      BY <3>1, Elements DEF Evs, I!Ids
    <3>3. CASE events[1].id \in ClientIds
      BY <3>1, <3>3, <2>1 DEF Positions
    <3>4. CASE events[1].id \in ServerIds
      BY <3>1, <3>2, <3>4 DEF ServerId
    <3> QED BY <3>1, <3>2, <3>3, <3>4
  <2> QED BY <2>1, <2>2 DEF I!EventsReachTheirObject, I!InFlight
<1>3. I!RequestsReachTheirObject
  <2>1. ASSUME requests # <<>>, Head(requests).op # "new"
        PROVE  resources[Head(requests).id] = Head(requests).obj
    BY <2>1, RequestFindsObject
  <2>2. ASSUME requests # <<>>, Head(requests).op = "new"
        PROVE  resources[Head(requests).id] = 0
    <3>1. Head(requests) = requests[1] /\ 1 \in Positions(requests)
      BY <2>2 DEF IdTypes, Positions
    <3>2. requests[1] \in Reqs(requests[1].id) /\ requests[1].id \in ClientIds \cup ServerIds
      BY <3>1, Elements DEF Reqs, I!Ids
    <3>3. requests[1].id \in ClientIds
      BY <2>2, <3>1, <3>2 DEF ServerId
    <3> QED BY <2>2, <3>1, <3>2, <3>3 DEF ClientId, Unborn, Asked
  <2> QED BY <2>1, <2>2 DEF I!RequestsReachTheirObject
<1>4. I!ZombiesAreOwed
  <2> SUFFICES ASSUME NEW i \in ClientIds, zombies[i] # 0, resources[i] # zombies[i]
               PROVE  \/ \E r \in I!InFlight(requests) : r.op = "new" /\ r.obj = zombies[i]
                      \/ \E e \in I!InFlight(events) : e.op = "delete" /\ e.obj = zombies[i]
    BY DEF I!ZombiesAreOwed
  <2>1. proxies[i] = 0 /\ Occupant(i) = zombies[i] /\ resources[i] = 0
    BY DEF ClientId, OneOccupant, Occupant
  <2>2. CASE Asked(i, "new")
    <3>1. PICK r \in Reqs(i) : r.op = "new"
      BY <2>2 DEF Asked
    <3>2. r.obj = zombies[i] /\ r \in I!InFlight(requests)
      BY <2>1 DEF ClientId, OneOccupant, Reqs, Positions, I!InFlight
    <3> QED BY <3>1, <3>2
  <2>3. CASE ~Asked(i, "new")
    <3>1. Acknowledged(i)
      BY <2>1, <2>3 DEF ClientId, Ended, Seen
    <3>2. PICK e \in Evs(i) : e.op = "delete"
      BY <3>1 DEF Acknowledged
    <3>3. e.obj = zombies[i] /\ e \in I!InFlight(events)
      BY <2>1 DEF ClientId, OneOccupant, Evs, Positions, I!InFlight
    <3> QED BY <3>2, <3>3
  <2> QED BY <2>2, <2>3
<1> QED BY <1>1, <1>2, <1>3, <1>4 DEF I!NoDescriptorLeftOver

-----------------------------------------------------------------------------
(* Both, as they are checked together. *)

LEMMA PartsStep == IInv /\ IdsInv /\ [MCNext]_<<part, vars, idVars>> => IInv' /\ IdsInv'
<1> SUFFICES ASSUME IInv, IdsInv, [MCNext]_<<part, vars, idVars>> PROVE IInv' /\ IdsInv'
  OBVIOUS
<1>1. [Next]_vars /\ [I!Next]_idVars
  <2>1. CASE UNCHANGED <<part, vars, idVars>>
    BY <2>1
  <2>2. CASE Next /\ OthersOfLoop
    BY <2>2 DEF OthersOfLoop
  <2>3. CASE I!Next /\ OthersOfIds
    BY <2>3 DEF OthersOfIds
  <2> QED BY <2>1, <2>2, <2>3 DEF MCNext
<1> QED BY <1>1, InductiveStep, IdsStep

THEOREM PartsInvariance == MCSpec => [](IInv /\ IdsInv)
<1>1. MCInit => IInv /\ IdsInv
  BY InitStep, IdsInit DEF MCInit
<1> QED BY <1>1, PartsStep, PTL DEF MCSpec

\* The tables of the loop, of both ends of the connection and the messages between them
\* keep their types.
THEOREM TypesAreOK == MCSpec => []TypesOK
<1>1. IInv => TypeOK
  BY DEF IInv, TypeInv, TableTypes, StepTypes, KernelTypes, HistoryTypes, TypeOK
<1>2. IdsInv => I!TypeOK
  BY IdsSound
<1>3. IInv /\ IdsInv => TypesOK
  BY <1>1, <1>2 DEF TypesOK
<1> QED BY <1>3, PartsInvariance, PTL

\* However often ids are reused and however much is under way, an event or a request
\* meets the object it was made for, or none; the client is never told of an error it did
\* not make, no descriptor is left over, and an id is held back only while the server may
\* know it (client display.cpp 131-143, 213-226; server display.cpp dispatch_available).
THEOREM MessagesArrive == MCSpec => []MessagesReachTheirObject
<1>1. IInv /\ IdsInv => MessagesReachTheirObject
  BY IdsSound DEF MessagesReachTheirObject
<1> QED BY <1>1, PartsInvariance, PTL
=============================================================================
