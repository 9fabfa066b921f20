----------------------------- MODULE EventLoop -----------------------------
(***************************************************************************)
(* zwayland::server::EventLoop: descriptor sources, timers and idles of    *)
(* one epoll loop.  Callbacks may register and remove anything, and a      *)
(* descriptor number that was given up may come back as another source or  *)
(* timer while events for its former owner are still waiting in the batch. *)
(***************************************************************************)
EXTENDS Integers, FiniteSets

CONSTANTS
  Fds,          \* descriptor numbers, shared by sources and timers
  MaxSources,   \* bound: registrations of descriptor sources
  MaxHandles    \* bound: timers and idles ever created (next_handle_)

ASSUME BoundsAssumption ==
  MaxSources \in Nat /\ MaxHandles \in Nat /\ IsFiniteSet(Fds)

VARIABLES
  fds,        \* fds_: descriptor -> registration, 0 when it has none
  timers,     \* timers_ with timer_fd_to_handle_: records [handle, fd, oneShot]
  idles,      \* idles_: handles
  sources,    \* registrations made so far (each is one FdSource object)
  nextHandle, \* next_handle_
  running,    \* running_
  wake,       \* wake_fd_ is readable
  phase,      \* "setup", "idles", "wait", "batch" or "exited"
  todo,       \* handles of the idle snapshot still to visit
  batch,      \* events of this epoll_wait still to visit, with what was captured
  current,    \* the callback under way, or NoCallback
  hot,        \* kernel: registrations whose descriptor is readable
  armed,      \* kernel: timers that are set
  expired,    \* kernel: timers with an unread expiration
  once,       \* history: handles made for a single run (idles, one-shot timers)
  ran         \* history: how often each of those ran

loopVars == <<fds, timers, idles, sources, nextHandle, running, wake>>
kernelVars == <<hot, armed, expired>>
vars == <<loopVars, phase, todo, batch, current, kernelVars, once, ran>>

----------------------------------------------------------------------------
CallbackSwapped(kind, id, reported, fd) ==    \* mutant: arguments swapped
  [kind |-> kind, id |-> fd, reported |-> reported, fd |-> fd]
\* id is what runs, reported what the event was reported for.
Callback(kind, id, reported, fd) ==
  [kind |-> kind, id |-> id, reported |-> reported, fd |-> fd]
NoCallback == [kind |-> "none", id |-> 0, reported |-> 0, fd |-> -1]

Handles == 1 .. MaxHandles
TimerHandles == {t.handle : t \in timers}
TimerOn(fd) == {t.handle : t \in {u \in timers : u.fd = fd}}
FreeFds == {fd \in Fds : fds[fd] = 0 /\ TimerOn(fd) = {}}

\* Code of the compositor runs during setup and inside callbacks.
UserCode == phase = "setup" \/ current # NoCallback

Init ==
  /\ fds = [fd \in Fds |-> 0] /\ timers = {} /\ idles = {}
  /\ sources = 0 /\ nextHandle = 1 /\ running = FALSE /\ wake = FALSE
  /\ phase = "setup" /\ todo = {} /\ batch = {} /\ current = NoCallback
  /\ hot = {} /\ armed = {} /\ expired = {}
  /\ once = {} /\ ran = [h \in Handles |-> 0]

----------------------------------------------------------------------------
(* What callbacks call. *)

AddFd ==
  /\ UserCode /\ sources < MaxSources
  /\ \E fd \in FreeFds : fds' = [fds EXCEPT ![fd] = sources + 1]
  /\ sources' = sources + 1
  /\ UNCHANGED <<timers, idles, nextHandle, running, wake,
                 phase, todo, batch, current, kernelVars, once, ran>>

AddTimer ==
  /\ UserCode /\ nextHandle <= MaxHandles
  /\ \E fd \in FreeFds, single \in BOOLEAN :
       /\ timers' = timers \cup {[handle |-> nextHandle, fd |-> fd, oneShot |-> single]}
       /\ armed' = IF single THEN armed \cup {nextHandle} ELSE armed
       /\ once' = IF single THEN once \cup {nextHandle} ELSE once
  /\ nextHandle' = nextHandle + 1
  /\ UNCHANGED <<fds, idles, sources, running, wake,
                 phase, todo, batch, current, hot, expired, ran>>

\* timerfd_settime() forgets an expiration nobody has read.
UpdateTimer ==
  /\ UserCode
  /\ \E h \in TimerHandles :
       /\ armed' \in {armed \cup {h}, armed \ {h}}
       /\ expired' = expired \ {h}
  /\ UNCHANGED <<loopVars, phase, todo, batch, current, hot, once, ran>>

WakeNever == wake      \* mutant: add_idle() does not wake the loop
WakeAfterAdd == TRUE

AddIdle ==
  /\ UserCode /\ nextHandle <= MaxHandles
  /\ idles' = idles \cup {nextHandle} /\ once' = once \cup {nextHandle}
  /\ nextHandle' = nextHandle + 1
  /\ wake' = WakeAfterAdd
  /\ UNCHANGED <<fds, timers, sources, running, phase, todo, batch, current, kernelVars, ran>>

\* remove(): the descriptor of a timer is closed, that of a source is given
\* back to its owner; either number may be used again at once.
RemoveFd ==
  /\ UserCode
  /\ \E fd \in Fds : fds[fd] # 0 /\ fds' = [fds EXCEPT ![fd] = 0]
                     /\ hot' = hot \ {fds[fd]}
  /\ UNCHANGED <<timers, idles, sources, nextHandle, running, wake,
                 phase, todo, batch, current, armed, expired, once, ran>>

ForgetTimer(h) ==
  /\ timers' = {t \in timers : t.handle # h}
  /\ armed' = armed \ {h}
  /\ expired' = expired \ {h}

RemoveTimer ==
  /\ UserCode
  /\ \E h \in TimerHandles : ForgetTimer(h)
  /\ UNCHANGED <<fds, idles, sources, nextHandle, running, wake,
                 phase, todo, batch, current, hot, once, ran>>

RemoveIdle ==
  /\ UserCode
  /\ \E h \in idles : idles' = idles \ {h}
  /\ UNCHANGED <<fds, timers, sources, nextHandle, running, wake,
                 phase, todo, batch, current, kernelVars, once, ran>>

Stop ==
  /\ current # NoCallback /\ running
  /\ running' = FALSE /\ wake' = TRUE
  /\ UNCHANGED <<fds, timers, idles, sources, nextHandle,
                 phase, todo, batch, current, kernelVars, once, ran>>

----------------------------------------------------------------------------
(* The loop. *)

KeepRunning == running

Run ==
  /\ phase = "setup"
  /\ running' = TRUE
  /\ phase' = "idles" /\ todo' = idles
  /\ UNCHANGED <<fds, timers, idles, sources, nextHandle, wake,
                 batch, current, kernelVars, once, ran>>

\* One handle of the snapshot, in no particular order; one that an earlier
\* callback removed is skipped.
RunIdle ==
  /\ phase = "idles" /\ current = NoCallback /\ KeepRunning
  /\ \E h \in todo :
       /\ todo' = todo \ {h}
       /\ idles' = idles \ {h}
       /\ IF h \in idles
            THEN current' = Callback("idle", h, h, -1) /\ ran' = [ran EXCEPT ![h] = @ + 1]
            ELSE UNCHANGED <<current, ran>>
  /\ UNCHANGED <<fds, timers, sources, nextHandle, running, wake, phase, batch, kernelVars, once>>

IdlesDone ==
  /\ phase = "idles" /\ current = NoCallback
  /\ ~KeepRunning \/ todo = {}
  /\ phase' = IF KeepRunning THEN "wait" ELSE "exited"
  /\ todo' = {}
  /\ UNCHANGED <<loopVars, batch, current, kernelVars, once, ran>>

\* An event carries the registration captured for its descriptor number.
Event(kind, fd, id) == [kind |-> kind, fd |-> fd, id |-> id]

ReadyEvents ==
  {Event("fd", fd, fds[fd]) : fd \in {f \in Fds : fds[f] \in hot}}
    \cup {Event("timer", t.fd, t.handle) : t \in {u \in timers : u.handle \in expired}}
    \cup (IF wake THEN {Event("wake", -1, 0)} ELSE {})

\* epoll_wait() blocks while nothing is ready; the registrations are captured
\* before any callback runs.
Wait ==
  /\ phase = "wait"
  /\ ReadyEvents # {}
  /\ batch' = ReadyEvents
  /\ phase' = "batch"
  /\ UNCHANGED <<loopVars, todo, current, kernelVars, once, ran>>

DrainWake ==
  /\ phase = "batch" /\ current = NoCallback
  /\ \E e \in batch : e.kind = "wake" /\ batch' = batch \ {e}
  /\ wake' = FALSE
  /\ UNCHANGED <<fds, timers, idles, sources, nextHandle, running,
                 phase, todo, current, kernelVars, once, ran>>

\* A timer fires when the captured handle still lives on that descriptor and
\* its expiration can still be read; a one-shot timer is removed first.
TimerStillThere(e) == \E t \in timers : t.handle = e.id /\ t.fd = e.fd
TimerFires(e) == TimerStillThere(e) /\ e.id \in expired
OneShot(h) == \E t \in timers : t.handle = h /\ t.oneShot
RemovedFirst(h) == OneShot(h)

RunTimer ==
  /\ phase = "batch" /\ current = NoCallback
  /\ \E e \in batch :
       /\ e.kind = "timer"
       /\ batch' = batch \ {e}
       /\ IF TimerFires(e)
            THEN /\ current' = Callback("timer", e.id, e.id, e.fd)
                 /\ ran' = IF e.id \in once THEN [ran EXCEPT ![e.id] = @ + 1] ELSE ran
                 /\ IF RemovedFirst(e.id)
                      THEN ForgetTimer(e.id)
                      ELSE expired' = expired \ {e.id} /\ UNCHANGED <<timers, armed>>
            ELSE UNCHANGED <<current, ran, timers, armed, expired>>
  /\ UNCHANGED <<fds, idles, sources, nextHandle, running, wake, phase, todo, hot, once>>

\* A source runs when the registration on that descriptor is the captured one.
SomeSource(e) == fds[e.fd] # 0                 \* mutant: looked up by number only
SameSource(e) == fds[e.fd] = e.id

RunFd ==
  /\ phase = "batch" /\ current = NoCallback
  /\ \E e \in batch :
       /\ e.kind = "fd"
       /\ batch' = batch \ {e}
       /\ IF SameSource(e)
            THEN /\ current' = Callback("fd", fds[e.fd], e.id, e.fd)
                 /\ hot' \in {hot, hot \ {fds[e.fd]}}
            ELSE UNCHANGED <<current, hot>>
  /\ UNCHANGED <<loopVars, phase, todo, armed, expired, once, ran>>

Return ==
  /\ current # NoCallback
  /\ current' = NoCallback
  /\ UNCHANGED <<loopVars, phase, todo, batch, kernelVars, once, ran>>

\* A source whose callback returns false is removed, unless the callback has
\* already put another one on its descriptor.
OwnFds == {fd \in {current.fd} : fds[fd] = current.id}

ReturnFalse ==
  /\ current.kind = "fd"
  /\ fds' = [fd \in Fds |-> IF fd \in OwnFds THEN 0 ELSE fds[fd]]
  /\ hot' = hot \ {current.id}
  /\ current' = NoCallback
  /\ UNCHANGED <<timers, idles, sources, nextHandle, running, wake,
                 phase, todo, batch, armed, expired, once, ran>>

BatchDone ==
  /\ phase = "batch" /\ current = NoCallback /\ batch = {}
  /\ IF KeepRunning THEN phase' = "idles" /\ todo' = idles
                ELSE phase' = "exited" /\ todo' = {}
  /\ UNCHANGED <<loopVars, batch, current, kernelVars, once, ran>>

----------------------------------------------------------------------------
(* The outside world. *)

Readable ==
  /\ \E fd \in Fds : fds[fd] # 0 /\ hot' = hot \cup {fds[fd]}
  /\ UNCHANGED <<loopVars, phase, todo, batch, current, armed, expired, once, ran>>

Expire ==
  /\ \E h \in armed : expired' = expired \cup {h} /\ armed' = armed \ {h}
  /\ UNCHANGED <<loopVars, phase, todo, batch, current, hot, once, ran>>

UserStep ==
  \/ AddFd \/ AddTimer \/ UpdateTimer \/ AddIdle
  \/ RemoveFd \/ RemoveTimer \/ RemoveIdle \/ Stop

LoopStep ==
  \/ RunIdle \/ IdlesDone \/ Wait \/ DrainWake \/ RunTimer \/ RunFd \/ BatchDone

Next == UserStep \/ Run \/ LoopStep \/ Return \/ ReturnFalse \/ Readable \/ Expire

Spec == Init /\ [][Next]_vars

\* The loop is run, goes on while it can, and callbacks return.
Fairness == WF_vars(Run) /\ WF_vars(LoopStep) /\ WF_vars(Return)

FairSpec == Spec /\ Fairness

----------------------------------------------------------------------------
TypeOK ==
  /\ fds \in [Fds -> 0 .. MaxSources]
  /\ timers \subseteq [handle : Handles, fd : Fds, oneShot : BOOLEAN]
  /\ idles \subseteq Handles /\ todo \subseteq Handles
  /\ sources \in 0 .. MaxSources /\ nextHandle \in 1 .. MaxHandles + 1
  /\ running \in BOOLEAN /\ wake \in BOOLEAN
  /\ phase \in {"setup", "idles", "wait", "batch", "exited"}
  /\ batch \subseteq [kind : {"fd", "timer", "wake"}, fd : Fds \cup {-1}, id : Nat]
  /\ current \in [kind : {"none", "fd", "timer", "idle"}, id : Nat, reported : Nat,
                  fd : Fds \cup {-1}]
  /\ hot \subseteq 1 .. MaxSources /\ armed \subseteq Handles /\ expired \subseteq Handles
  /\ once \subseteq Handles /\ ran \in [Handles -> Nat]

\* An event reported for one registration never runs the callback of another
\* one that took over the descriptor number within the batch (run() 192-200).
NoStaleEvent == current.reported = current.id

\* An idle and a one-shot timer run at most once (event_loop.hpp 32-37).
OnceOnly == \A h \in once : ran[h] <= 1

\* An event reported for one registration never runs the callback of another
\* one, and an idle or a one-shot timer runs once (event_loop.hpp 32-37).
CallbacksAreDue == NoStaleEvent /\ OnceOnly

\* Returning false gives up the callback's own registration and no other.
OthersKept ==
  [][\A fd \in Fds :
       (fds'[fd] # fds[fd] /\ current.kind = "fd" /\ current' = NoCallback)
         => fds[fd] = current.id]_vars

\* An idle is run unless it is removed or the loop is stopped: a loop that is
\* about to block is woken.
IdlesRun ==
  \A h \in Handles :
    (h \in idles /\ phase # "setup") ~> (h \notin idles \/ ~running)
=============================================================================
